---- MODULE Spec2Model ----
(***************************************************************************)
(* A model of T2Scrap (src/main.py) and of its HTTP front-end (src/app.py):*)
(* the normalisation utilities, the per-storefront extraction paths, the   *)
(* cache-aside store and the fan-out/join orchestrator.                    *)
(*                                                                         *)
(* Texts are sequences of one-character strings, so that the string        *)
(* operations of the source (in, replace, strip, lower, re.search) are      *)
(* computed and not assumed.  Prices are integers counting hundredths      *)
(* (1299.00 is 129900): every float the model builds has at most two       *)
(* decimals.  Glyphs outside ASCII carry ASCII names ("rupee" is U+20B9).   *)
(* hashlib.md5 is taken to be injective on the keys used: a cache path is  *)
(* the key string it is the digest of.                                     *)
(***************************************************************************)
EXTENDS Integers, Sequences, FiniteSets, TLC

\* ------------------------------------------------------------------------
\* Config (src/main.py:23-35)
\* ------------------------------------------------------------------------
MAX_RETRIES == 2
MAX_WORKERS == 5
RESULTS_PER_SITE == 15
CACHE_TTL == 3600

\* ------------------------------------------------------------------------
\* Characters and strings
\* ------------------------------------------------------------------------
Digits == <<"0", "1", "2", "3", "4", "5", "6", "7", "8", "9">>

IsDigit(ch) == \E i \in 1..10 : Digits[i] = ch

DigitVal(ch) == (CHOOSE i \in 1..10 : Digits[i] = ch) - 1

Upper == <<"A","B","C","D","E","F","G","H","I","J","K","L","M",
           "N","O","P","Q","R","S","T","U","V","W","X","Y","Z">>

Lower == <<"a","b","c","d","e","f","g","h","i","j","k","l","m",
           "n","o","p","q","r","s","t","u","v","w","x","y","z">>

\* str.lower() on one character
LowerCh(ch) ==
    IF \E i \in 1..26 : Upper[i] = ch
    THEN Lower[CHOOSE i \in 1..26 : Upper[i] = ch]
    ELSE ch

\* str.lower()
LowerStr(t) == [i \in 1..Len(t) |-> LowerCh(t[i])]

\* the characters str.strip() and str.split() take for whitespace
IsSpace(ch) == ch \in {" ", "tab", "nl"}

RECURSIVE LStrip(_)
LStrip(t) == IF t # <<>> /\ IsSpace(Head(t)) THEN LStrip(Tail(t)) ELSE t

RECURSIVE RStrip(_)
RStrip(t) ==
    IF t # <<>> /\ IsSpace(t[Len(t)]) THEN RStrip(SubSeq(t, 1, Len(t) - 1)) ELSE t

\* str.strip()
Strip(t) == RStrip(LStrip(t))

\* t[i:].startswith(pat), i counted from 1
StartsAt(t, i, pat) ==
    /\ i + Len(pat) - 1 <= Len(t)
    /\ \A j \in 1..Len(pat) : t[i + j - 1] = pat[j]

\* pat in t
Contains(t, pat) == \E i \in 1..(Len(t) + 1) : StartsAt(t, i, pat)

RECURSIVE RemoveFrom(_, _, _)
RemoveFrom(t, i, pat) ==
    IF i > Len(t) THEN <<>>
    ELSE IF StartsAt(t, i, pat) THEN RemoveFrom(t, i + Len(pat), pat)
    ELSE <<t[i]>> \o RemoveFrom(t, i + 1, pat)

\* t.replace(pat, ''), pat not empty: the non-overlapping occurrences, from the left
Remove(t, pat) == RemoveFrom(t, 1, pat)

\* ------------------------------------------------------------------------
\* Optional values: None, and the truth value Python gives a float
\* ------------------------------------------------------------------------
None == [some |-> FALSE, v |-> 0]

Some(x) == [some |-> TRUE, v |-> x]

\* bool(x) for x an Optional[float]: None and 0.0 are false
Truthy(o) == o.some /\ o.v # 0

\* ------------------------------------------------------------------------
\* Utilities (src/main.py:136-180)
\* ------------------------------------------------------------------------
\* currency_map, in the order the dict is written: the order the loop tries
currency_map ==
    << [symbol |-> <<"$">>,           curr |-> "USD"],
       [symbol |-> <<"pound">>,       curr |-> "GBP"],
       [symbol |-> <<"euro">>,        curr |-> "EUR"],
       [symbol |-> <<"yen">>,         curr |-> "JPY"],
       [symbol |-> <<"rupee">>,       curr |-> "INR"],
       [symbol |-> <<"R","s">>,       curr |-> "INR"],
       [symbol |-> <<"R","s",".">>,   curr |-> "INR"],
       [symbol |-> <<"N","P","R">>,   curr |-> "NPR"],
       [symbol |-> <<"taka">>,        curr |-> "BDT"],
       [symbol |-> <<"T","k">>,       curr |-> "BDT"],
       [symbol |-> <<"P","K","R">>,   curr |-> "PKR"],
       [symbol |-> <<"si_ra","si_u">>, curr |-> "LKR"] >>

\* the alternatives of the pattern (USD|INR|EUR|GBP|NPR|BDT|PKR|LKR), lower-cased
CurrencyCodes ==
    { <<"u","s","d">>, <<"i","n","r">>, <<"e","u","r">>, <<"g","b","p">>,
      <<"n","p","r">>, <<"b","d","t">>, <<"p","k","r">>, <<"l","k","r">> }

RECURSIVE StripCodesFrom(_, _)
StripCodesFrom(t, i) ==
    IF i > Len(t) THEN <<>>
    ELSE IF i + 2 <= Len(t) /\ LowerStr(SubSeq(t, i, i + 2)) \in CurrencyCodes
         THEN StripCodesFrom(t, i + 3)
         ELSE <<t[i]>> \o StripCodesFrom(t, i + 1)

\* re.sub(r'(USD|...|LKR)', '', text, flags=re.IGNORECASE)
StripCodes(t) == StripCodesFrom(t, 1)

RECURSIVE DigitsToInt(_)
DigitsToInt(ds) ==
    IF ds = <<>> THEN 0
    ELSE 10 * DigitsToInt(SubSeq(ds, 1, Len(ds) - 1)) + DigitVal(ds[Len(ds)])

\* the end of the run of digits that starts at i
RECURSIVE RunEnd(_, _)
RunEnd(t, i) == IF i < Len(t) /\ IsDigit(t[i + 1]) THEN RunEnd(t, i + 1) ELSE i

\* re.search(r'(\d+(?:\.\d{1,2})?)', t) and float() of the match, in hundredths;
\* None when no digit occurs
SearchNumber(t) ==
    IF \A i \in 1..Len(t) : ~IsDigit(t[i]) THEN None
    ELSE LET i == CHOOSE k \in 1..Len(t) :
                      IsDigit(t[k]) /\ \A m \in 1..(k - 1) : ~IsDigit(t[m])
             j == RunEnd(t, i)
             whole == DigitsToInt(SubSeq(t, i, j))
             frac1 == j + 2 <= Len(t) /\ t[j + 1] = "." /\ IsDigit(t[j + 2])
             frac2 == frac1 /\ j + 3 <= Len(t) /\ IsDigit(t[j + 3])
         IN  Some(100 * whole
                  + (IF frac1 THEN 10 * DigitVal(t[j + 2]) ELSE 0)
                  + (IF frac2 THEN DigitVal(t[j + 3]) ELSE 0))

\* a loop that goes on after a match and keeps the last entry that occurs
FirstSymbolLast(t) ==
    IF \E k \in 1..Len(currency_map) : Contains(t, currency_map[k].symbol)
    THEN CHOOSE k \in 1..Len(currency_map) :
             /\ Contains(t, currency_map[k].symbol)
             /\ \A m \in (k + 1)..Len(currency_map) : ~Contains(t, currency_map[m].symbol)
    ELSE 0

\* the first entry of currency_map whose symbol occurs in t, 0 when none does
FirstSymbol(t) ==
    IF \E k \in 1..Len(currency_map) : Contains(t, currency_map[k].symbol)
    THEN CHOOSE k \in 1..Len(currency_map) :
             /\ Contains(t, currency_map[k].symbol)
             /\ \A m \in 1..(k - 1) : ~Contains(t, currency_map[m].symbol)
    ELSE 0

\* extract_price(text, default_currency) -> (value, currency)
extract_price(text, default_currency) ==
    IF text = <<>> THEN [value |-> None, currency |-> default_currency]
    ELSE LET t0 == Strip(text)
             k  == FirstSymbol(t0)
             currency == IF k = 0 THEN default_currency ELSE currency_map[k].curr
             t1 == IF k = 0 THEN t0 ELSE Remove(t0, currency_map[k].symbol)
             t2 == StripCodes(t1)
             t3 == Strip(Remove(Remove(t2, <<",">>), <<" ">>))
         IN  [value |-> SearchNumber(t3), currency |-> currency]

RECURSIVE Collapse(_)
Collapse(t) ==
    IF t = <<>> THEN <<>>
    ELSE IF IsSpace(Head(t))
         THEN (IF LStrip(t) = <<>> THEN <<>> ELSE <<" ">> \o Collapse(LStrip(t)))
         ELSE <<Head(t)>> \o Collapse(Tail(t))

\* clean_text(text): ' '.join(text.split()).strip()
clean_text(text) == Collapse(LStrip(text))

\* float(s) for the texts the model draws: an optional sign, digits, and at
\* most two decimals; anything else raises ValueError (None here).  The texts
\* drawn hold no exponent, "nan" or "inf".
ParseFloat(s) ==
    LET t == Strip(s)
        neg == t # <<>> /\ t[1] = "-"
        u == IF t # <<>> /\ t[1] \in {"-", "+"} THEN Tail(t) ELSE t
        wellFormed ==
            /\ u # <<>>
            /\ IsDigit(u[1])
            /\ LET j == RunEnd(u, 1)
               IN  \/ j = Len(u)
                   \/ /\ j + 2 <= Len(u) /\ Len(u) <= j + 3
                      /\ u[j + 1] = "."
                      /\ \A m \in (j + 2)..Len(u) : IsDigit(u[m])
    IN  IF wellFormed
        THEN Some((IF neg THEN -1 ELSE 1) * SearchNumber(u).v)
        ELSE None

\* ------------------------------------------------------------------------
\* Product (src/main.py:67-84).  The fields the properties below do not read
\* (original_price, discount_percent, url, image_url, rating, reviews_count,
\* seller, flags, condition, timestamp) are left out.
\* ------------------------------------------------------------------------
Min(a, b) == IF a <= b THEN a ELSE b

\* name[:150]
Trunc(t, n) == SubSeq(t, 1, Min(n, Len(t)))

\* (the fields stand in the order in which TLC sorts them)
Product(platform, name, price, currency) ==
    [currency |-> currency, platform |-> platform, name |-> Trunc(name, 150),
     price |-> price]

\* products[:n]
Take(sq, n) == SubSeq(sq, 1, Min(n, Len(sq)))

\* ------------------------------------------------------------------------
\* JSON values of a storefront's listItems entries
\* ------------------------------------------------------------------------
JAbsent == [kind |-> "absent", v |-> 0, s |-> <<>>]

JNum(v) == [kind |-> "num", v |-> v, s |-> <<>>]

JStr(s) == [kind |-> "str", v |-> 0, s |-> s]

\* bool(x) of a JSON value
JTruthy(x) == (x.kind = "num" /\ x.v # 0) \/ (x.kind = "str" /\ x.s # <<>>)

\* item.get('name', ''), cleaned: a name that is no string makes clean_text
\* raise, which the item's try block turns into a skip (the empty name here)
ItemName(item) == IF item.name.kind = "str" THEN clean_text(item.name.s) ELSE <<>>

\* _search_api, lines 433-443: the price of one item, None when it is skipped
DarazApiPrice(item) ==
    LET parsed == IF item.price.kind = "num" THEN Some(item.price.v)
                  ELSE ParseFloat(Remove(item.price.s, <<",">>))
    IN  IF ~JTruthy(item.price) THEN None
        ELSE IF ~parsed.some THEN None
        ELSE IF ~Truthy(parsed) \/ parsed.v <= 0 THEN None
        ELSE parsed

\* _search_api, lines 431-529: one item, as the list of products it adds
DarazApiItem(item, platform, currency) ==
    LET price == DarazApiPrice(item)
        name == ItemName(item)
    IN  IF ~price.some \/ name = <<>> THEN <<>>
        ELSE <<Product(platform, name, price.v, currency)>>

\* _search_html, lines 569-571: the price of one embedded item, None when skipped
DarazEmbeddedPrice(item) ==
    LET parsed == CASE item.price.kind = "absent" -> Some(0)
                    [] item.price.kind = "num" -> Some(item.price.v)
                    [] OTHER -> ParseFloat(item.price.s)
    IN  IF ~parsed.some THEN None
        ELSE IF ~Truthy(parsed) THEN None
        ELSE parsed

\* _search_html, lines 567-591: one embedded item
DarazEmbeddedItem(item, platform, currency) ==
    LET price == DarazEmbeddedPrice(item)
        name == ItemName(item)
    IN  IF ~price.some \/ name = <<>> THEN <<>>
        ELSE <<Product(platform, name, price.v, currency)>>

\* a loop that appends, item by item, the products each item gives
RECURSIVE Flatten(_)
Flatten(ss) == IF ss = <<>> THEN <<>> ELSE Head(ss) \o Flatten(Tail(ss))

\* ------------------------------------------------------------------------
\* DarazScraper._build_product_url and slugify
\* ------------------------------------------------------------------------
\* DarazScraper.base_url of the default country
base_url == <<"h", "t", "t", "p", "s", ":", "/", "/", "w", "w", "w", ".", "d", "a", "r", "a", "z", ".", "c", "o", "m", ".", "n", "p">>

\* slugify's max_length
SLUG_MAX == 80

IsLetter(ch) == \E i \in 1..26 : Lower[i] = ch

\* re.sub(r'[^a-zA-Z0-9\s-]', '', text) on lowered text
SlugKeep(t) == SelectSeq(t, LAMBDA ch : IsLetter(ch) \/ IsDigit(ch) \/ IsSpace(ch) \/ ch = "-")

\* re.sub(r'\s+', '-', t)
RECURSIVE SlugSpaces(_)
SlugSpaces(t) ==
    IF t = <<>> THEN <<>>
    ELSE IF IsSpace(Head(t)) THEN <<"-">> \o SlugSpaces(LStrip(t))
    ELSE <<Head(t)>> \o SlugSpaces(Tail(t))

\* str.lstrip(ch)
RECURSIVE LStripCh(_, _)
LStripCh(t, ch) == IF t # <<>> /\ Head(t) = ch THEN LStripCh(Tail(t), ch) ELSE t

\* str.rstrip(ch)
RECURSIVE RStripCh(_, _)
RStripCh(t, ch) ==
    IF t # <<>> /\ t[Len(t)] = ch THEN RStripCh(SubSeq(t, 1, Len(t) - 1), ch) ELSE t

\* re.sub(r'-+', '-', t)
RECURSIVE SlugHyphens(_)
SlugHyphens(t) ==
    IF t = <<>> THEN <<>>
    ELSE IF Head(t) = "-" THEN <<"-">> \o SlugHyphens(LStripCh(t, "-"))
    ELSE <<Head(t)>> \o SlugHyphens(Tail(t))

\* slugify(text)
slugify(text) ==
    LET slug == SlugHyphens(SlugSpaces(SlugKeep(LowerStr(text))))
    IN  RStripCh(LStripCh(Take(slug, SLUG_MAX), "-"), "-")

\* str(n) of a natural number
RECURSIVE IntToText(_)
IntToText(n) == IF n < 10 THEN <<Digits[n + 1]>>
                ELSE IntToText(n \div 10) \o <<Digits[(n % 10) + 1]>>

\* a JSON value inside an f-string: identifiers are JSON integers or strings
JFormat(x) == IF x.kind = "num" THEN IntToText(x.v) ELSE x.s

\* a or b or c over JSON values: the first truthy one, else the last
JOr(xs) ==
    IF \E i \in 1..Len(xs) : JTruthy(xs[i])
    THEN xs[CHOOSE i \in 1..Len(xs) : JTruthy(xs[i]) /\ \A j \in 1..(i - 1) : ~JTruthy(xs[j])]
    ELSE xs[Len(xs)]

\* lines 355-362: a candidate link made absolute
FixUrl(url) ==
    IF StartsAt(url, 1, <<"/", "/">>) THEN <<"h", "t", "t", "p", "s", ":">> \o url
    ELSE IF StartsAt(url, 1, <<"/">>) THEN base_url \o url
    ELSE IF ~StartsAt(url, 1, <<"h", "t", "t", "p">>) THEN base_url \o <<"/">> \o LStripCh(url, "/")
    ELSE url

\* a test that lets every candidate link through
LooksLikeAnything(url) == TRUE

\* line 365: the test a candidate link must pass to be returned
LooksLikeProduct(url) ==
    /\ Contains(url, <<"/", "p", "r", "o", "d", "u", "c", "t", "s", "/">>)
    /\ Contains(url, <<"-", "i">>) \/ Contains(url, <<".", "h", "t", "m", "l">>)

\* Method 1, lines 349-367: the fields of url_fields from the k-th on; item.links
\* holds the values of itemUrl, productUrl, href, link, url in that order
RECURSIVE DirectUrl(_, _)
DirectUrl(item, k) ==
    IF k > Len(item.links) THEN None
    ELSE LET raw == item.links[k]
             url == FixUrl(raw.s)
         IN  IF raw.kind = "str" /\ raw.s # <<>> /\ LooksLikeProduct(url) THEN Some(url)
             ELSE DirectUrl(item, k + 1)

\* Method 2, lines 370-383: the link made of the item's identifier
IdUrl(item, name) ==
    LET item_id == JOr(<<item.itemId, item.nid, item.id>>)
        sku_id == JOr(<<item.skuId, item.sku>>)
        stem == base_url \o <<"/", "p", "r", "o", "d", "u", "c", "t", "s", "/">> \o slugify(name) \o <<"-", "i">> \o JFormat(item_id)
    IN  IF ~JTruthy(item_id) THEN None
        ELSE IF JTruthy(sku_id) THEN Some(stem \o <<"-", "s">> \o JFormat(sku_id) \o <<".", "h", "t", "m", "l">>)
        ELSE Some(stem \o <<".", "h", "t", "m", "l">>)

\* the characters of [:\s]
IsColonOrSpace(ch) == ch = ":" \/ IsSpace(ch)

RECURSIVE SkipColonSpace(_, _)
SkipColonSpace(t, i) ==
    IF i <= Len(t) /\ IsColonOrSpace(t[i]) THEN SkipColonSpace(t, i + 1) ELSE i

\* re.search(r'itemId[:\s]*(\d+)', t) tried from position i on: group 1 or None
RECURSIVE SearchItemId(_, _)
SearchItemId(t, i) ==
    IF i > Len(t) THEN None
    ELSE LET j == SkipColonSpace(t, i + 6)
         IN  IF StartsAt(t, i, <<"i", "t", "e", "m", "I", "d">>) /\ j <= Len(t) /\ IsDigit(t[j])
             THEN Some(SubSeq(t, j, RunEnd(t, j)))
             ELSE SearchItemId(t, i + 1)

\* Method 3, lines 387-395: the identifier found in clickTrackInfo; a number
\* there is turned to text by str()
ClickUrl(item, name) ==
    LET click_info == item.clickTrackInfo
        text == JFormat(click_info)
        match == SearchItemId(text, 1)
    IN  IF JTruthy(click_info) /\ Contains(text, <<"i", "t", "e", "m", "I", "d">>) /\ match.some
        THEN Some(base_url \o <<"/", "p", "r", "o", "d", "u", "c", "t", "s", "/">> \o slugify(name) \o <<"-", "i">> \o match.v \o <<".", "h", "t", "m", "l">>)
        ELSE None

\* _build_product_url(item, name)
build_product_url(item, name) ==
    LET m1 == DirectUrl(item, 1)
        m2 == IdUrl(item, name)
        m3 == ClickUrl(item, name)
    IN  IF m1.some THEN m1.v
        ELSE IF m2.some THEN m2.v
        ELSE IF m3.some THEN m3.v
        ELSE <<>>

\* ------------------------------------------------------------------------
\* Rendered documents: what the selectors of an adapter find
\* ------------------------------------------------------------------------
\* the result of select_one: no element, or an element with its text and title
NoElem == [found |-> FALSE, text |-> <<>>, title |-> <<>>]

Elem(text) == [found |-> TRUE, text |-> text, title |-> <<>>]

ElemT(text, title) == [found |-> TRUE, text |-> text, title |-> title]

\* a or b or c over select_one results: a Tag is true whatever it holds
\* (bs4's Tag.__bool__), so the first element found wins
RECURSIVE FirstFound(_)
FirstFound(chain) ==
    IF chain = <<>> THEN NoElem
    ELSE IF Head(chain).found THEN Head(chain) ELSE FirstFound(Tail(chain))

\* elem.get_text() or elem.get('title', '')
TextOrTitle(e) == IF e.text # <<>> THEN e.text ELSE e.title

\* cards = soup.select(s1); if not cards: cards = soup.select(s2); ...
RECURSIVE FirstNonEmpty(_)
FirstNonEmpty(selections) ==
    IF selections = <<>> THEN <<>>
    ELSE IF Head(selections) # <<>> THEN Head(selections)
    ELSE FirstNonEmpty(Tail(selections))

\* a result card: the elements each locator of the name chain and of the price
\* chain finds, in the chain's order, and what only some storefronts read
Card(nameChain, priceChain) ==
    [name |-> nameChain, price |-> priceChain, flag |-> FALSE, asin |-> <<>>,
     whole |-> NoElem, fraction |-> NoElem]

\* _search_html, lines 614-682: one Daraz card
DarazCard(card, platform, currency) ==
    LET name_elem == FirstFound(card.name)
        name == clean_text(TextOrTitle(name_elem))
        price_elem == FirstFound(card.price)
        price == extract_price(price_elem.text, currency).value
    IN  IF ~name_elem.found \/ name = <<>> THEN <<>>
        ELSE IF ~price_elem.found \/ ~Truthy(price) THEN <<>>
        ELSE <<Product(platform, name, price.v, currency)>>

\* text.split(sep)[0]
RECURSIVE BeforeFrom(_, _, _)
BeforeFrom(t, i, sep) ==
    IF i > Len(t) \/ StartsAt(t, i, sep) THEN <<>>
    ELSE <<t[i]>> \o BeforeFrom(t, i + 1, sep)

Before(t, sep) == BeforeFrom(t, 1, sep)

ShopOnEbay == <<"s","h","o","p"," ","o","n"," ","e","b","a","y">>

\* EbayScraper.search, lines 710-779: one card; flag is s-item__pl-on-bottom
EbayCard(card, platform, currency) ==
    LET name_elem == FirstFound(card.name)
        name == clean_text(name_elem.text)
        price_elem == FirstFound(card.price)
        price_text == IF Contains(LowerStr(price_elem.text), <<" ","t","o"," ">>)
                      THEN Before(price_elem.text, <<" ","t","o"," ">>)
                      ELSE price_elem.text
        price == extract_price(price_text, currency).value
    IN  IF card.flag THEN <<>>
        ELSE IF ~name_elem.found THEN <<>>
        ELSE IF name = <<>> \/ Contains(LowerStr(name), ShopOnEbay) THEN <<>>
        ELSE IF ~price_elem.found \/ ~Truthy(price) THEN <<>>
        ELSE <<Product(platform, name, price.v, currency)>>

\* AliExpressScraper.search, lines 826-865: one card
AliExpressCard(card, platform, currency) ==
    LET name_elem == FirstFound(card.name)
        name == clean_text(name_elem.text)
        price_elem == FirstFound(card.price)
        price == extract_price(price_elem.text, currency).value
    IN  IF ~name_elem.found THEN <<>>
        ELSE IF ~price_elem.found \/ ~Truthy(price) THEN <<>>
        ELSE <<Product(platform, name, price.v, currency)>>

\* AmazonScraper.search, lines 930-948: the price of one card.  A float() that
\* raises leaves price as it was (except: pass).
AmazonPrice(card, currency) ==
    LET price_elem == FirstFound(card.price)
        first == IF price_elem.found
                 THEN extract_price(price_elem.text, currency).value ELSE None
        whole == ParseFloat(Remove(Remove(card.whole.text, <<",">>), <<".">>))
        frac == ParseFloat(card.fraction.text)
    IN  IF Truthy(first) \/ ~card.whole.found \/ ~whole.some THEN first
        ELSE IF card.fraction.found /\ frac.some
             THEN Some(whole.v + (frac.v \div 100))
             ELSE whole

\* AmazonScraper.search, lines 910-999: one card; flag is the sponsored label
AmazonCard(card, platform, currency) ==
    LET name_elem == FirstFound(card.name)
        name == clean_text(name_elem.text)
        price == AmazonPrice(card, currency)
    IN  IF card.flag \/ card.asin = <<>> THEN <<>>
        ELSE IF ~name_elem.found THEN <<>>
        ELSE IF name = <<>> \/ Len(name) < 5 THEN <<>>
        ELSE IF ~Truthy(price) THEN <<>>
        ELSE <<Product(platform, name, price.v, currency)>>

\* FlipkartScraper.search, lines 1033-1101: one card
FlipkartCard(card, platform, currency) ==
    LET name_elem == FirstFound(card.name)
        name == clean_text(TextOrTitle(name_elem))
        price_elem == FirstFound(card.price)
        price == extract_price(price_elem.text, currency).value
    IN  IF ~name_elem.found \/ name = <<>> THEN <<>>
        ELSE IF ~price_elem.found \/ ~Truthy(price) THEN <<>>
        ELSE <<Product(platform, name, price.v, currency)>>

\* WalmartScraper.search, lines 1134-1163: one card
WalmartCard(card, platform, currency) ==
    LET name_elem == FirstFound(card.name)
        name == clean_text(name_elem.text)
        price_elem == FirstFound(card.price)
        price == extract_price(price_elem.text, currency).value
    IN  IF ~name_elem.found \/ name = <<>> THEN <<>>
        ELSE IF ~price_elem.found \/ ~Truthy(price) THEN <<>>
        ELSE <<Product(platform, name, price.v, currency)>>

\* ------------------------------------------------------------------------
\* Responses and the searches of the six storefront variants
\* ------------------------------------------------------------------------
\* what _make_request returns: None, or a document with its script blocks and
\* what each card selector finds
NoResponse == [ok |-> FALSE, scripts |-> <<>>, selections |-> <<>>]

Page(scripts, selections) == [ok |-> TRUE, scripts |-> scripts, selections |-> selections]

\* a script block: "pageData" holds window.pageData with a listItems array,
\* "badjson" matches the pattern and does not decode, "badshape" decodes to an
\* object whose 'mods' is null, "runParams" holds "productId" fields, "other"
\* holds none of the markers
Script(kind, items) == [kind |-> kind, items |-> items]

\* the answer of the catalog endpoint to session.get: an exception, a status
\* other than 200, a body that is no JSON, or a body with its listItems
ApiResponse(kind, items) == [kind |-> kind, items |-> items]

\* DarazScraper._search_api (lines 400-538)
DarazSearchApi(resp) ==
    IF resp.kind = "ok"
    THEN Flatten([k \in 1..Len(resp.items) |-> DarazApiItem(resp.items[k], "Daraz", "NPR")])
    ELSE <<>>

\* _search_html, lines 556-593: the products of one script block
DarazScript(script) ==
    IF script.kind = "pageData"
    THEN Flatten([k \in 1..Len(script.items) |->
                 DarazEmbeddedItem(script.items[k], "Daraz", "NPR")])
    ELSE <<>>

\* _search_html, lines 561-592: script_data.get('mods', {}).get(...) on a 'mods'
\* that is no object raises AttributeError, and the try block around it
\* catches json.JSONDecodeError alone
DarazScriptRaises(script) == script.kind = "badshape"

\* _search_html raises when one of its script blocks does: nothing between the
\* block and the caller of search catches
DarazSearchHtmlRaises(response) ==
    /\ response.ok
    /\ \E k \in 1..Len(response.scripts) : DarazScriptRaises(response.scripts[k])

\* DarazScraper._search_html (lines 540-685), when it returns
DarazSearchHtml(response) ==
    LET embedded == Flatten([k \in 1..Len(response.scripts) |-> DarazScript(response.scripts[k])])
    IN  IF ~response.ok THEN <<>>
        ELSE IF embedded # <<>> THEN embedded
        ELSE LET cards == FirstNonEmpty(response.selections)
             IN  Flatten([k \in 1..Len(cards) |-> DarazCard(cards[k], "Daraz", "NPR")])

\* DarazScraper.search (lines 338-343): the document is fetched only when the
\* endpoint gave no product
DarazSearch(resp, response) ==
    LET products == DarazSearchApi(resp)
    IN  Take(IF products # <<>> THEN products ELSE DarazSearchHtml(response),
             RESULTS_PER_SITE)

\* DarazScraper.search raises when _search_html is reached and raises;
\* _search_api catches every exception (lines 402, 531-532)
DarazSearchRaises(resp, response) ==
    DarazSearchApi(resp) = <<>> /\ DarazSearchHtmlRaises(response)

\* EbayScraper.search (lines 699-781): one selector, '.s-item'
EbaySearch(response) ==
    IF ~response.ok \/ response.selections = <<>> THEN <<>>
    ELSE LET cards == Head(response.selections)
         IN  Take(Flatten([k \in 1..Len(cards) |-> EbayCard(cards[k], "eBay", "USD")]),
                  RESULTS_PER_SITE)

AliPrefix == <<"A","l","i","E","x","p","r","e","s","s"," ","P","r","o","d","u","c","t"," ">>

\* AliExpressScraper.search, lines 808-820: the placeholder products of one
\* script block; the placeholder price 0.01 is one hundredth
AliExpressScript(script) ==
    IF script.kind = "runParams"
    THEN LET ids == Take(script.items, RESULTS_PER_SITE)
         IN  [k \in 1..Len(ids) |-> Product("AliExpress", AliPrefix \o ids[k], 1, "USD")]
    ELSE <<>>

\* AliExpressScraper.search (lines 795-867)
AliExpressSearch(response) ==
    LET products == Flatten([k \in 1..Len(response.scripts) |-> AliExpressScript(response.scripts[k])])
    IN  IF ~response.ok THEN <<>>
        ELSE IF products # <<>> THEN products
        ELSE LET cards == Take(FirstNonEmpty(response.selections), RESULTS_PER_SITE)
             IN  Flatten([k \in 1..Len(cards) |->
                              AliExpressCard(cards[k], "AliExpress", "USD")])

\* AmazonScraper.search (lines 894-1001), domain 'com'
AmazonSearch(response) ==
    IF ~response.ok THEN <<>>
    ELSE LET cards == FirstNonEmpty(response.selections)
         IN  Take(Flatten([k \in 1..Len(cards) |-> AmazonCard(cards[k], "Amazon", "USD")]),
                  RESULTS_PER_SITE)

\* FlipkartScraper.search (lines 1015-1103)
FlipkartSearch(response) ==
    IF ~response.ok THEN <<>>
    ELSE LET cards == FirstNonEmpty(response.selections)
         IN  Take(Flatten([k \in 1..Len(cards) |-> FlipkartCard(cards[k], "Flipkart", "INR")]),
                  RESULTS_PER_SITE)

\* WalmartScraper.search (lines 1117-1165)
WalmartSearch(response) ==
    IF ~response.ok THEN <<>>
    ELSE LET cards == FirstNonEmpty(response.selections)
         IN  Take(Flatten([k \in 1..Len(cards) |-> WalmartCard(cards[k], "Walmart", "USD")]),
                  RESULTS_PER_SITE)

\* ------------------------------------------------------------------------
\* CacheManager (src/main.py:182-230)
\* ------------------------------------------------------------------------
\* a key that takes the query as it was typed
CacheKeyRaw(platform, query) == <<platform, query>>

\* the key string f"{platform}:{query.lower().strip()}", whose md5 names the file
CacheKey(platform, query) == <<platform, Strip(LowerStr(query))>>

\* a file of the cache directory: none, a pickle of {'timestamp', 'products'},
\* or bytes pickle.load cannot decode
NoEntry == [kind |-> "none", timestamp |-> 0, products |-> <<>>]

Entry(timestamp, products) ==
    [kind |-> "pickle", timestamp |-> timestamp, products |-> products]

Corrupt == [kind |-> "corrupt", timestamp |-> 0, products |-> <<>>]

\* Optional[List[Product]]
Absent == [hit |-> FALSE, products |-> <<>>]

Hit(products) == [hit |-> TRUE, products |-> products]

\* a freshness test that still accepts an entry whose age is exactly the TTL
FreshInclusive(e, t) == t - e.timestamp <= CACHE_TTL

\* the entry get reads is fresh: time.time() - data['timestamp'] < self.ttl
Fresh(e, t) == t - e.timestamp < CACHE_TTL

\* CacheManager.get, the value returned
cache_get(store, t, platform, query) ==
    LET e == store[CacheKey(platform, query)]
    IN  IF e.kind = "pickle" /\ Fresh(e, t) THEN Hit(e.products) ELSE Absent

\* CacheManager.get, the store it leaves: a stale entry is unlinked; an entry
\* that does not decode raises inside the try block and stays.  The unlink of
\* line 203 runs while the file is still open for reading and is taken to
\* succeed, as it does on a file system that lets an open file be removed.
cache_get_store(store, t, platform, query) ==
    LET k == CacheKey(platform, query)
    IN  IF store[k].kind = "pickle" /\ ~Fresh(store[k], t)
        THEN [store EXCEPT ![k] = NoEntry]
        ELSE store

\* a set that leaves an entry that is already there
cache_set_if_absent(store, t, platform, query, products) ==
    IF store[CacheKey(platform, query)].kind = "none"
    THEN [store EXCEPT ![CacheKey(platform, query)] = Entry(t, products)]
    ELSE store

\* CacheManager.set, the store it leaves
cache_set(store, t, platform, query, products) ==
    [store EXCEPT ![CacheKey(platform, query)] = Entry(t, products)]

\* the files glob("*.pkl") lists
Files(store) == {k \in DOMAIN store : store[k].kind # "none"}

\* a clear that counts only the files that decode
cache_clear_decodable(store) ==
    Cardinality({k \in DOMAIN store : store[k].kind = "pickle"})

\* CacheManager.clear, the count returned
cache_clear(store) == Cardinality(Files(store))

\* CacheManager.clear, the store it leaves
cache_clear_store(store) == [k \in DOMAIN store |-> NoEntry]

\* CacheManager.get_stats, its 'entries'
cache_get_stats(store) == Cardinality(Files(store))

\* ------------------------------------------------------------------------
\* State
\* ------------------------------------------------------------------------
VARIABLES
    a_name,     \* the adapter whose search ran last ("none" before any)
    a_in,       \* what the storefront answered to that search
    a_out,      \* the products that search returned
    a_raised,   \* TRUE when that search raised instead of returning
    fetch,      \* the network fetch an adapter is making: its attempts so far
    px,         \* a call of extract_price: its arguments and what it returned
    bu,         \* a Daraz item being turned into a Product: the item and the result
    cache,      \* the files of CACHE_DIR: key -> entry
    now,        \* time.time(), in seconds
    c_op,       \* the last call a client made on the CacheManager, with its result
    c_valid,    \* TRUE while the files are those of the keys set since the store was
                \* last empty (it started empty or was cleared, and no get has evicted)
    c_written,  \* per key, the payload and the time of the last set since the last
                \* clear (some is FALSE when there was none)
    call,       \* each search call in flight: its arguments, its place, its result
    unit,       \* each call's units of work (search_platform), one per scraper
    acc,        \* T2Scrap._current_results
    lock,       \* T2Scrap._lock: the call whose thread holds it, or "none"
    history,    \* SearchHistory.history
    disk,       \* one cache file block by block: its path and the files behind it
    io          \* the threads inside get and set on that file: where each one is

vars == <<a_name, a_in, a_out, a_raised, fetch, px, bu, cache, now, c_op, c_valid, c_written, call, unit, acc, lock, history, disk, io>>

adapterVars == <<a_name, a_in, a_out, a_raised, fetch, px, bu>>

cacheVars == <<cache, now, c_op, c_valid, c_written>>

engineVars == <<call, unit, acc, lock, history>>

fileVars == <<disk, io>>

\* ------------------------------------------------------------------------
\* What the storefronts may answer: the documents the adapters are run on
\* ------------------------------------------------------------------------
\* the longest listItems array and the most cards a document holds
MaxItems == 2

SeqsUpTo(S, n) == UNION {[1..k -> S] : k \in 0..n}

T_phone == <<"p","h","o","n","e">>

P_usd == <<"$","1","2",".","5","0">>

P_rs == <<"R","s","."," ","4",",","5","0","0">>

P_range == <<"$","5"," ","t","o"," ","$","9">>

Item(price, name) == [price |-> price, name |-> name]

Items ==
    { Item(JNum(1250), JStr(T_phone)),
      Item(JNum(0), JStr(T_phone)),
      Item(JNum(-500), JStr(T_phone)),
      Item(JStr(<<"1",",","2","0","0">>), JStr(<<" ","t","v"," ">>)),
      Item(JStr(<<"a","b","c">>), JStr(T_phone)),
      Item(JAbsent, JStr(T_phone)),
      Item(JNum(1250), JStr(<<>>)) }

Cards ==
    { Card(<<Elem(T_phone)>>, <<Elem(P_usd)>>),
      Card(<<NoElem, ElemT(<<>>, T_phone)>>, <<NoElem, Elem(P_rs)>>),
      Card(<<Elem(<<>>), Elem(T_phone)>>, <<Elem(P_usd)>>),
      Card(<<Elem(T_phone)>>, <<Elem(<<"0">>)>>),
      Card(<<Elem(T_phone)>>, <<Elem(<<"-","5">>)>>),
      Card(<<Elem(T_phone)>>, <<Elem(<<"f","r","e","e">>)>>),
      Card(<<Elem(T_phone)>>, <<NoElem>>) }

EbayCards ==
    { Card(<<Elem(T_phone)>>, <<Elem(P_usd)>>),
      Card(<<NoElem, Elem(T_phone)>>, <<Elem(P_range)>>),
      [Card(<<Elem(T_phone)>>, <<Elem(P_usd)>>) EXCEPT !.flag = TRUE],
      Card(<<Elem(<<"S","h","o","p"," ","o","n"," ","e","B","a","y">>)>>, <<Elem(P_usd)>>),
      Card(<<Elem(T_phone)>>, <<Elem(<<"0",".","0","0">>)>>),
      Card(<<Elem(T_phone)>>, <<NoElem>>) }

AmazonCard0 == [Card(<<Elem(T_phone)>>, <<NoElem>>) EXCEPT !.asin = <<"B","1">>]

AmazonCards ==
    { [AmazonCard0 EXCEPT !.price = <<Elem(P_usd)>>],
      [AmazonCard0 EXCEPT !.price = <<Elem(P_usd)>>, !.flag = TRUE],
      [AmazonCard0 EXCEPT !.price = <<Elem(P_usd)>>, !.asin = <<>>],
      [AmazonCard0 EXCEPT !.name = <<Elem(<<"t","v">>)>>, !.price = <<Elem(P_usd)>>],
      [AmazonCard0 EXCEPT !.whole = Elem(<<"1",",","2","0","0",".">>),
                          !.fraction = Elem(<<"9","9">>)],
      [AmazonCard0 EXCEPT !.price = <<Elem(<<"0">>)>>, !.whole = Elem(<<"7">>)],
      [AmazonCard0 EXCEPT !.whole = Elem(<<"-","5">>)],
      [AmazonCard0 EXCEPT !.whole = Elem(<<"x">>)],
      AmazonCard0 }

\* the documents whose cards are drawn from cardSet: no response, or the cards
\* under the first or under the second selector
Pages(cardSet) ==
    {NoResponse}
    \cup {Page(<<>>, <<cl>>) : cl \in SeqsUpTo(cardSet, MaxItems)}
    \cup {Page(<<>>, <<<<>>, cl>>) : cl \in SeqsUpTo(cardSet, MaxItems) \ {<<>>}}

NoApi == ApiResponse("none", <<>>)

ApiResponses ==
    {ApiResponse("exc", <<>>), ApiResponse("status", <<>>), ApiResponse("badjson", <<>>)}
    \cup {ApiResponse("ok", l) : l \in SeqsUpTo(Items, MaxItems)}

\* Daraz documents: embedded listItems in one or two script blocks, or cards
DarazPages ==
    Pages(Cards)
    \cup {Page(<<Script("pageData", l)>>, <<>>) : l \in SeqsUpTo(Items, MaxItems)}
    \cup {Page(<<Script("badjson", <<>>), Script("pageData", <<i>>)>>, <<<<c>>>>) :
              i \in Items, c \in Cards}
    \cup {Page(<<Script("badshape", <<>>)>>, <<<<c>>>>) : c \in Cards}
    \cup {Page(<<Script("pageData", <<i>>), Script("badshape", <<>>)>>, <<>>) : i \in Items}

AliIds == {<<"1">>, <<"2","3">>}

\* a script block with as many "productId" fields as one block may give
FullBlock == [k \in 1..RESULTS_PER_SITE |-> <<"1">>]

AliExpressPages ==
    Pages(Cards)
    \cup {Page(<<Script("runParams", l)>>, <<<<c>>>>) :
              l \in SeqsUpTo(AliIds, MaxItems), c \in Cards}
    \cup {Page(<<Script("other", <<>>), Script("runParams", <<i>>), Script("runParams", <<j>>)>>,
               <<>>) : i \in AliIds, j \in AliIds}
    \cup {Page(<<Script("runParams", FullBlock \o l)>>, <<>>) : l \in SeqsUpTo(AliIds, MaxItems)}
    \cup {Page(<<Script("runParams", FullBlock), Script("runParams", <<i>>)>>, <<>>) :
              i \in AliIds}

\* ------------------------------------------------------------------------
\* The adapters run alone: each action is one search(query) on one answer,
\* and Forget drops the returned list before the next search
\* ------------------------------------------------------------------------
AdapterRan(name, api, response, products) ==
    /\ a_name' = name
    /\ a_in' = [api |-> api, page |-> response]
    /\ a_out' = products
    /\ a_raised' = FALSE
    /\ UNCHANGED <<bu, disk, io, fetch, px, cacheVars, engineVars>>

\* the search ended in an exception that reached its caller
AdapterRaised(name, api, response) ==
    /\ a_name' = name
    /\ a_in' = [api |-> api, page |-> response]
    /\ a_out' = <<>>
    /\ a_raised' = TRUE
    /\ UNCHANGED <<bu, disk, io, fetch, px, cacheVars, engineVars>>

RunDaraz ==
    /\ a_name = "none"
    /\ \E resp \in ApiResponses, response \in DarazPages :
           /\ DarazSearchApi(resp) # <<>> => response = NoResponse
           /\ IF DarazSearchRaises(resp, response)
              THEN AdapterRaised("Daraz", resp, response)
              ELSE AdapterRan("Daraz", resp, response, DarazSearch(resp, response))

RunEbay ==
    /\ a_name = "none"
    /\ \E response \in Pages(EbayCards) :
           AdapterRan("eBay", NoApi, response, EbaySearch(response))

RunAliExpress ==
    /\ a_name = "none"
    /\ \E response \in AliExpressPages :
           AdapterRan("AliExpress", NoApi, response, AliExpressSearch(response))

RunAmazon ==
    /\ a_name = "none"
    /\ \E response \in Pages(AmazonCards) :
           AdapterRan("Amazon", NoApi, response, AmazonSearch(response))

RunFlipkart ==
    /\ a_name = "none"
    /\ \E response \in Pages(Cards) :
           AdapterRan("Flipkart", NoApi, response, FlipkartSearch(response))

RunWalmart ==
    /\ a_name = "none"
    /\ \E response \in Pages(Cards) :
           AdapterRan("Walmart", NoApi, response, WalmartSearch(response))

Forget ==
    /\ a_name # "none"
    /\ a_name' = "none"
    /\ a_in' = [api |-> NoApi, page |-> NoResponse]
    /\ a_out' = <<>>
    /\ a_raised' = FALSE
    /\ UNCHANGED <<bu, disk, io, fetch, px, cacheVars, engineVars>>

\* ------------------------------------------------------------------------
\* extract_price run alone on price texts: a text is what may stand before
\* the number, the number, and what may stand after it
\* ------------------------------------------------------------------------
PricePrefixes ==
    { <<>>, <<"$">>, <<"R","s","."," ">>, <<"R","s">>, <<"N","P","R"," ">>,
      <<"T","k"," ">>, <<"pound">>, <<" ">> }

\* each number text with the value a reader takes from it, in hundredths
PriceNumbers ==
    { [text |-> <<"1",",","2","9","9",".","0","0">>, value |-> Some(129900)],
      [text |-> <<"4",",","5","0","0">>,             value |-> Some(450000)],
      [text |-> <<"1"," ","2","9","9">>,             value |-> Some(129900)],
      [text |-> <<"1","2",".","5">>,                 value |-> Some(1250)],
      [text |-> <<"1",".","9","9","9">>,             value |-> Some(199)],
      [text |-> <<"0">>,                             value |-> Some(0)],
      [text |-> <<"f","r","e","e">>,                 value |-> None],
      [text |-> <<>>,                                value |-> None] }

PriceSuffixes == { <<>>, <<" ","U","S","D">>, <<" ","N","P","R">>, <<"$">> }

DefaultCurrencies == {"USD", "NPR"}

NoPrice ==
    [pc |-> "idle", text |-> <<>>, default_currency |-> "", number |-> None,
     ret |-> [value |-> None, currency |-> ""]]

PriceInputs ==
    { [NoPrice EXCEPT !.pc = "called", !.text = a \o n.text \o z,
                      !.default_currency = d, !.number = n.value] :
          a \in PricePrefixes, n \in PriceNumbers, z \in PriceSuffixes,
          d \in DefaultCurrencies }

\* the call returns
ExtractPrice ==
    /\ px.pc = "called"
    /\ px' = [px EXCEPT !.pc = "returned",
                        !.ret = extract_price(px.text, px.default_currency)]
    /\ UNCHANGED <<bu, disk, io, a_name, a_in, a_out, a_raised, fetch, cacheVars, engineVars>>

\* ------------------------------------------------------------------------
\* One listItems entry through _search_api's loop body (src/main.py:431-529)
\* with the link _build_product_url gives it.  Each field value is drawn with
\* what a reader of the storefront would say of it: whether a candidate link
\* is an item link and its absolute form, the identifier an item carries, the
\* identifier written in its click-tracking text, the slug of its name.
\* ------------------------------------------------------------------------
LinkChoices ==
    { [v |-> JAbsent, good |-> FALSE, norm |-> <<>>],
      [v |-> JStr(<<"/", "/", "w", "w", "w", ".", "d", "a", "r", "a", "z", ".", "c", "o", "m", ".", "n", "p", "/", "p", "r", "o", "d", "u", "c", "t", "s", "/", "t", "v", "-", "i", "7", ".", "h", "t", "m", "l">>), good |-> TRUE, norm |-> <<"h", "t", "t", "p", "s", ":", "/", "/", "w", "w", "w", ".", "d", "a", "r", "a", "z", ".", "c", "o", "m", ".", "n", "p", "/", "p", "r", "o", "d", "u", "c", "t", "s", "/", "t", "v", "-", "i", "7", ".", "h", "t", "m", "l">>],
      [v |-> JStr(<<"/", "p", "r", "o", "d", "u", "c", "t", "s", "/", "t", "v", "-", "i", "8", "-", "s", "2", ".", "h", "t", "m", "l">>), good |-> TRUE, norm |-> <<"h", "t", "t", "p", "s", ":", "/", "/", "w", "w", "w", ".", "d", "a", "r", "a", "z", ".", "c", "o", "m", ".", "n", "p", "/", "p", "r", "o", "d", "u", "c", "t", "s", "/", "t", "v", "-", "i", "8", "-", "s", "2", ".", "h", "t", "m", "l">>],
      [v |-> JStr(<<"p", "r", "o", "d", "u", "c", "t", "s", "/", "t", "v", ".", "h", "t", "m", "l">>), good |-> TRUE, norm |-> <<"h", "t", "t", "p", "s", ":", "/", "/", "w", "w", "w", ".", "d", "a", "r", "a", "z", ".", "c", "o", "m", ".", "n", "p", "/", "p", "r", "o", "d", "u", "c", "t", "s", "/", "t", "v", ".", "h", "t", "m", "l">>],
      [v |-> JStr(<<"/", "t", "r", "a", "c", "k", "/", "9">>), good |-> FALSE, norm |-> <<>>],
      [v |-> JStr(<<"h", "t", "t", "p", "s", ":", "/", "/", "w", "w", "w", ".", "d", "a", "r", "a", "z", ".", "c", "o", "m", ".", "n", "p", "/", "s", "h", "o", "p", "/", "t", "v", ".", "h", "t", "m", "l">>), good |-> FALSE, norm |-> <<>>],
      [v |-> JNum(5), good |-> FALSE, norm |-> <<>>] }

NameChoices ==
    { [name |-> <<"S", "m", "a", "r", "t", " ", "T", "V", " ", "4", "K", "!">>, slug |-> <<"s", "m", "a", "r", "t", "-", "t", "v", "-", "4", "k">>],
      [name |-> <<"A", " ", "-", " ", "B">>, slug |-> <<"a", "-", "b">>],
      [name |-> <<"-", "x", "-">>, slug |-> <<"x">>],
      [name |-> <<"!">>, slug |-> <<>>],
      [name |-> [i \in 1..79 |-> "a"] \o <<" ", "b">>, slug |-> [i \in 1..79 |-> "a"]] }

IdChoices ==
    { [itemId |-> JAbsent, nid |-> JAbsent, text |-> <<>>],
      [itemId |-> JNum(0), nid |-> JAbsent, text |-> <<>>],
      [itemId |-> JNum(0), nid |-> JNum(8), text |-> <<"8">>],
      [itemId |-> JNum(7), nid |-> JAbsent, text |-> <<"7">>],
      [itemId |-> JNum(7), nid |-> JNum(8), text |-> <<"7">>],
      [itemId |-> JStr(<<"4", "2">>), nid |-> JAbsent, text |-> <<"4", "2">>],
      [itemId |-> JAbsent, nid |-> JNum(8), text |-> <<"8">>],
      [itemId |-> JStr(<<>>), nid |-> JAbsent, text |-> <<>>] }

SkuChoices == { [skuId |-> JAbsent, text |-> <<>>], [skuId |-> JStr(<<"s", "1">>), text |-> <<"s", "1">>] }

ClickChoices ==
    { [v |-> JAbsent, text |-> <<>>],
      [v |-> JStr(<<"i", "t", "e", "m", "I", "d", ":", "9">>), text |-> <<"9">>],
      [v |-> JStr(<<"x", " ", "i", "t", "e", "m", "I", "d", " ", "1", "2", ";">>), text |-> <<"1", "2">>],
      [v |-> JStr(<<"i", "t", "e", "m", "I", "d", "=", "9">>), text |-> <<>>],
      [v |-> JStr(<<"i", "t", "e", "m", "I", "d", " ", "i", "t", "e", "m", "I", "d", ":", "3">>), text |-> <<"3">>],
      [v |-> JNum(5), text |-> <<>>] }

UrlItem(price, name, first, last, ids, sku, click) ==
    [price |-> price, name |-> JStr(name),
     links |-> <<first, JAbsent, JAbsent, JAbsent, last>>,
     itemId |-> ids.itemId, nid |-> ids.nid, id |-> JAbsent,
     skuId |-> sku, sku |-> JAbsent, clickTrackInfo |-> click]

NoBuilt == [products |-> <<>>, url |-> <<>>]

NoUrl == [pc |-> "none",
          item |-> UrlItem(JAbsent, <<>>, JAbsent, JAbsent, [itemId |-> JAbsent, nid |-> JAbsent], JAbsent, JAbsent),
          first |-> FALSE, expect |-> <<>>, ret |-> NoBuilt]

\* the link of an item whose identifier reads id, with its name's slug
ItemLink(slug, id, sku) ==
    base_url \o <<"/", "p", "r", "o", "d", "u", "c", "t", "s", "/">> \o slug \o <<"-", "i">> \o id
        \o (IF sku = <<>> THEN <<>> ELSE <<"-", "s">> \o sku) \o <<".", "h", "t", "m", "l">>

UrlInputs ==
    { [NoUrl EXCEPT
         !.pc = "called",
         !.item = UrlItem(p, n.name, l1.v, l5.v, d, s.skuId, c.v),
         !.first = l1.good \/ l5.good,
         !.expect = IF l1.good THEN l1.norm
                    ELSE IF l5.good THEN l5.norm
                    ELSE IF d.text # <<>> THEN ItemLink(n.slug, d.text, s.text)
                    ELSE IF c.text # <<>> THEN ItemLink(n.slug, c.text, <<>>)
                    ELSE <<>>] :
          p \in {JNum(500), JAbsent}, n \in NameChoices, l1 \in LinkChoices,
          l5 \in LinkChoices, d \in IdChoices, s \in SkuChoices, c \in ClickChoices }

\* the loop body runs on the item: the Product it appends, if any, and its url
BuildProductUrl ==
    /\ bu.pc = "called"
    /\ bu' = [bu EXCEPT
                !.pc = "returned",
                !.ret = LET products == DarazApiItem(bu.item, "Daraz", "NPR")
                        IN  [products |-> products,
                             url |-> IF products = <<>> THEN <<>>
                                     ELSE build_product_url(bu.item, ItemName(bu.item))]]
    /\ UNCHANGED <<a_name, a_in, a_out, a_raised, fetch, px, cacheVars, engineVars, fileVars>>

\* ------------------------------------------------------------------------
\* Network fetches: BaseScraper._make_request (src/main.py:305-316) and the
\* session.get of DarazScraper._search_api (line 414).  Each action is one
\* step of one fetch; log holds the outcome of every attempt made.
\* ------------------------------------------------------------------------
\* every class with a search method (lines 322, 691, 787, 873, 1007, 1109)
AdapterNames == {"Daraz", "eBay", "AliExpress", "Amazon", "Flipkart", "Walmart"}

\* what session.get may do: raise (0 here), or answer with a status
AttemptOutcomes == {0, 200, 204, 404, 503}

NoFetch == [name |-> "none", via |-> "none", pc |-> "idle", log |-> <<>>, response |-> None]

\* line 306, the loop is entered: range(Config.MAX_RETRIES)
MakeRequest ==
    /\ fetch.pc = "idle"
    /\ \E name \in AdapterNames :
           fetch' = [NoFetch EXCEPT !.name = name, !.via = "_make_request", !.pc = "try"]
    /\ UNCHANGED <<bu, disk, io, a_name, a_in, a_out, a_raised, px, cacheVars, engineVars>>

\* lines 307-314: one attempt; status 200 returns the response, anything else
\* (another status, an exception) goes on to the sleep
Attempt ==
    /\ fetch.pc = "try"
    /\ Len(fetch.log) < MAX_RETRIES
    /\ \E o \in AttemptOutcomes :
           fetch' = IF o = 200
                    THEN [fetch EXCEPT !.log = Append(@, o), !.pc = "done",
                                       !.response = Some(o)]
                    ELSE [fetch EXCEPT !.log = Append(@, o), !.pc = "sleep"]
    /\ UNCHANGED <<bu, disk, io, a_name, a_in, a_out, a_raised, px, cacheVars, engineVars>>

\* line 315, time.sleep(Config.RETRY_DELAY), then the next turn of the loop or,
\* the range exhausted, line 316: return None
Sleep ==
    /\ fetch.pc = "sleep"
    /\ fetch' = IF Len(fetch.log) < MAX_RETRIES
                THEN [fetch EXCEPT !.pc = "try"]
                ELSE [fetch EXCEPT !.pc = "done", !.response = None]
    /\ UNCHANGED <<bu, disk, io, a_name, a_in, a_out, a_raised, px, cacheVars, engineVars>>

\* _search_api, lines 413-416 and 527-532: one session.get outside any loop;
\* a status other than 200 or an exception leaves the endpoint without answer
SearchApiGet ==
    /\ fetch.pc = "idle"
    /\ \E o \in AttemptOutcomes :
           fetch' = [name |-> "Daraz", via |-> "session.get", pc |-> "done", log |-> <<o>>,
                     response |-> IF o = 200 THEN Some(o) ELSE None]
    /\ UNCHANGED <<bu, disk, io, a_name, a_in, a_out, a_raised, px, cacheVars, engineVars>>

\* the adapter goes on with what the fetch gave
FetchReturn ==
    /\ fetch.pc = "done"
    /\ fetch' = NoFetch
    /\ UNCHANGED <<bu, disk, io, a_name, a_in, a_out, a_raised, px, cacheVars, engineVars>>

\* ------------------------------------------------------------------------
\* SearchResult (src/main.py:104-130) and SearchHistory.add (250-261)
\* ------------------------------------------------------------------------
\* len(self.products)
total_products(products) == Len(products)

\* set(p.platform for p in self.products)
platforms_searched(products) == {products[i].platform : i \in 1..Len(products)}

\* min(self.products, key=lambda p: p.price): the first product of least price
\* (None when products is empty: best_deal is only read on a list that is not)
best_deal(products) ==
    products[CHOOSE i \in 1..Len(products) :
                 /\ \A j \in 1..Len(products) : products[i].price <= products[j].price
                 /\ \A j \in 1..(i - 1) : products[j].price > products[i].price]

MinPrice(products) ==
    CHOOSE m \in {products[i].price : i \in 1..Len(products)} :
        \A i \in 1..Len(products) : m <= products[i].price

MaxPrice(products) ==
    CHOOSE m \in {products[i].price : i \in 1..Len(products)} :
        \A i \in 1..Len(products) : m >= products[i].price

\* (min(prices), max(prices)), or (0, 0)
price_range(products) ==
    IF products # <<>> THEN <<MinPrice(products), MaxPrice(products)>> ELSE <<0, 0>>

\* list.sort(key=lambda p: p.price): stable, ascending; the insertion of one
\* product after the products already placed whose price is not greater
RECURSIVE InsertByPrice(_, _)
InsertByPrice(sorted, p) ==
    IF sorted = <<>> THEN <<p>>
    ELSE IF Head(sorted).price <= p.price
         THEN <<Head(sorted)>> \o InsertByPrice(Tail(sorted), p)
         ELSE <<p>> \o sorted

RECURSIVE SortByPrice(_)
SortByPrice(products) ==
    IF products = <<>> THEN <<>>
    ELSE InsertByPrice(SortByPrice(SubSeq(products, 1, Len(products) - 1)),
                       products[Len(products)])

\* the entry SearchHistory.add appends
HistoryEntry(query, products) ==
    [query |-> query,
     total_products |-> total_products(products),
     platforms |-> platforms_searched(products),
     best_price |-> IF products # <<>> THEN Some(best_deal(products).price) ELSE None]

\* ------------------------------------------------------------------------
\* The parts of the state space: sources, queries, payloads, the clock
\* ------------------------------------------------------------------------
\* T2Scrap.scrapers, by name, in the order of registration (lines 1173-1179)
ScraperNames == <<"Daraz", "eBay", "Amazon", "Flipkart", "AliExpress">>

Q_tv == <<"t","v">>

Q_TV == <<" ","T","V">>

Q_pc == <<"p","c">>

Queries == {Q_tv, Q_TV, Q_pc}

AllKeys == {CacheKey(ScraperNames[i], q) : i \in 1..Len(ScraperNames), q \in Queries}

EmptyStore == [k \in AllKeys |-> NoEntry]

\* the clock advances by half a TTL at a time, MaxTicks times at most
MaxTicks == 2

TickStep == CACHE_TTL \div 2

Tick ==
    /\ now < MaxTicks * TickStep
    /\ now' = now + TickStep
    /\ UNCHANGED <<disk, io, adapterVars, cache, c_op, c_valid, c_written, engineVars>>

\* the lists a storefront's search may return: products of that platform
Offer(platform, price) == Product(platform, T_phone, price, "USD")

Lists(platform) ==
    { <<>>,
      <<Offer(platform, 300)>>,
      <<Offer(platform, 500), Offer(platform, 100)>> }

\* the lists the engine's searches draw from: empty, or the one list of the
\* storefront, whose prices do not come in ascending order over the storefronts
SearchLists(platform) ==
    { <<>>,
      IF platform = "Daraz" THEN <<Offer(platform, 500), Offer(platform, 100)>>
                            ELSE <<Offer(platform, 300)>> }

\* ------------------------------------------------------------------------
\* The CacheManager under one caller at a time: each action is one call
\* ------------------------------------------------------------------------
NoWrite == [some |-> FALSE, timestamp |-> 0, products |-> <<>>]

NoOp == [op |-> "none", platform |-> "", query |-> <<>>, ret |-> Absent, n |-> 0]

\* the record of the call just made: ret is what get returned or what set
\* was given, n is what clear or get_stats returned, and for a set 1 when a
\* get just before it would have hit
Op(op, platform, query, ret, n) ==
    [op |-> op, platform |-> platform, query |-> query, ret |-> ret, n |-> n]

\* the (source, query) pairs the caller uses: two spellings of one query, another
\* query, another source
CacheCalls == {<<"Daraz", Q_tv>>, <<"Daraz", Q_TV>>, <<"Daraz", Q_pc>>, <<"eBay", Q_tv>>}

ClientSet ==
    \E pq \in CacheCalls :
      \E products \in Lists(pq[1]) :
        /\ cache' = cache_set(cache, now, pq[1], pq[2], products)
        /\ c_op' = Op("set", pq[1], pq[2], Hit(products),
                      IF cache_get(cache, now, pq[1], pq[2]).hit THEN 1 ELSE 0)
        /\ c_written' = [c_written EXCEPT ![CacheKey(pq[1], pq[2])] =
                             [some |-> TRUE, timestamp |-> now, products |-> products]]
        /\ UNCHANGED <<disk, io, adapterVars, now, c_valid, engineVars>>

ClientGet ==
    \E pq \in CacheCalls :
        /\ cache' = cache_get_store(cache, now, pq[1], pq[2])
        /\ c_op' = Op("get", pq[1], pq[2], cache_get(cache, now, pq[1], pq[2]), 0)
        /\ c_valid' = (c_valid /\ cache' = cache)
        /\ UNCHANGED <<disk, io, adapterVars, now, c_written, engineVars>>

\* app.py, clear_cache (lines 109-112)
ClientClear ==
    /\ cache' = cache_clear_store(cache)
    /\ c_op' = Op("clear", "", <<>>, Absent, cache_clear(cache))
    /\ c_written' = [k \in AllKeys |-> NoWrite]
    /\ c_valid' = TRUE
    /\ UNCHANGED <<disk, io, adapterVars, now, engineVars>>

\* app.py, get_stats (lines 102-106)
ClientStats ==
    /\ c_op' = Op("stats", "", <<>>, Absent, cache_get_stats(cache))
    /\ UNCHANGED <<disk, io, adapterVars, cache, now, c_valid, c_written, engineVars>>

\* ------------------------------------------------------------------------
\* CacheManager.get and CacheManager.set on one key, system call by system
\* call (src/main.py:192-215).  Threads of overlapping requests are in get and
\* set on the same file at once.  The file is a sequence of blocks: open(...,
\* 'wb') truncates it, pickle.dump writes it block by block from the start,
\* pickle.load reads it block by block.  A path names a file; unlink removes
\* the name, and a thread that has the file open keeps reading or writing it.
\* ------------------------------------------------------------------------
\* the blocks a pickle takes
MaxBlocks == 2

\* the threads that call set; each writes the payload that bears its name
Writers == {"w1", "w2"}

\* the threads that call get
Readers == {"r1", "r2"}

\* the payload a file may hold when the threads start, written by an earlier set
OldPayload == "old"

\* the files that can come to exist: the one found, and one per set that finds none
Inodes == 1..(Cardinality(Writers) + 1)

\* a stretch of a file no write has filled
Hole == <<"hole", 0>>

\* the pickle of a payload, block by block
Blocks(p) == [i \in 1..MaxBlocks |-> <<p, i>>]

\* data['timestamp'] of a payload: the threads' sets run now, the earlier set
\* ran at old_ts
Stamp(p) == IF p = OldPayload THEN disk.old_ts ELSE now

\* the file after a write of block b at offset i
WriteAt(content, i, b) ==
    [j \in 1..(IF Len(content) < i THEN i ELSE Len(content)) |->
        IF j = i THEN b ELSE IF j <= Len(content) THEN content[j] ELSE Hole]

NoDisk == [path |-> 0, next |-> 1, old_ts |-> 0, ino |-> [n \in Inodes |-> <<>>]]

StartWriter == [pc |-> "start", ino |-> 0, at |-> 1]

StartReader == [pc |-> "start", ino |-> 0, buf |-> <<>>, saw |-> "none", ret |-> "none"]

NoIo ==
    [w |-> [w \in Writers |-> StartWriter], r |-> [r \in Readers |-> StartReader],
     finished |-> <<>>]

\* the directory as the threads find it: no file, or the file of a set made
\* a TTL ago (stale) or half a TTL ago (fresh)
InitialDisks ==
    {NoDisk}
    \cup {[path |-> 1, next |-> 2, old_ts |-> ts,
           ino |-> [n \in Inodes |-> IF n = 1 THEN Blocks(OldPayload) ELSE <<>>]] :
              ts \in {0, TickStep}}

\* line 212, open(cache_path, 'wb'): the file is created, or emptied
SetOpen(w) ==
    /\ io.w[w].pc = "start"
    /\ IF disk.path = 0
       THEN /\ disk' = [disk EXCEPT !.path = disk.next, !.next = @ + 1]
            /\ io' = [io EXCEPT !.w[w] = [pc |-> "writing", ino |-> disk.next, at |-> 1]]
       ELSE /\ disk' = [disk EXCEPT !.ino[disk.path] = <<>>]
            /\ io' = [io EXCEPT !.w[w] = [pc |-> "writing", ino |-> disk.path, at |-> 1]]
    /\ UNCHANGED <<adapterVars, cacheVars, engineVars>>

\* line 213, pickle.dump: one more block goes to the file; with the last one
\* the with block is left and set returns
SetWrite(w) ==
    /\ io.w[w].pc = "writing"
    /\ LET me == io.w[w]
       IN  /\ disk' = [disk EXCEPT !.ino[me.ino] = WriteAt(@, me.at, <<w, me.at>>)]
           /\ io' = IF me.at = MaxBlocks
                    THEN [io EXCEPT !.w[w].pc = "closed", !.finished = Append(@, w)]
                    ELSE [io EXCEPT !.w[w].at = @ + 1]
    /\ UNCHANGED <<adapterVars, cacheVars, engineVars>>

\* get returns: ret is "absent" for None, else the payload whose products it
\* returns; saw is what the thread met on its way
Returned(me, saw, ret) == [me EXCEPT !.pc = "returned", !.saw = saw, !.ret = ret]

\* line 196, cache_path.exists(): without a file get returns None
GetExists(r) ==
    /\ io.r[r].pc = "start"
    /\ io' = IF disk.path = 0
             THEN [io EXCEPT !.r[r] = Returned(@, "none", "absent")]
             ELSE [io EXCEPT !.r[r].pc = "open"]
    /\ UNCHANGED <<adapterVars, cacheVars, engineVars, disk>>

\* line 198, open(cache_path, 'rb'): a file gone since line 196 raises
\* FileNotFoundError, which line 204 catches
GetOpen(r) ==
    /\ io.r[r].pc = "open"
    /\ io' = IF disk.path = 0
             THEN [io EXCEPT !.r[r] = Returned(@, "vanished", "absent")]
             ELSE [io EXCEPT !.r[r].pc = "loading", !.r[r].ino = disk.path]
    /\ UNCHANGED <<adapterVars, cacheVars, engineVars, disk>>

\* line 199, pickle.load reads the next block: the end of the file or a hole
\* where a block should be raises (EOFError, UnpicklingError), which line 204
\* catches
GetRead(r) ==
    /\ io.r[r].pc = "loading"
    /\ LET content == disk.ino[io.r[r].ino]
           i == Len(io.r[r].buf) + 1
       IN  io' = IF Len(content) < i \/ content[i] = Hole
                 THEN [io EXCEPT !.r[r] = Returned(@, "partial", "absent")]
                 ELSE [io EXCEPT !.r[r].buf = Append(@, content[i]),
                                 !.r[r].pc = IF i = MaxBlocks THEN "loaded" ELSE "loading"]
    /\ UNCHANGED <<adapterVars, cacheVars, engineVars, disk>>

\* the blocks read are those of one payload
Whole(buf) == \A i \in 1..Len(buf) : buf[i][1] = buf[1][1]

\* lines 199-203, the end of pickle.load and the TTL test.  Blocks of one payload
\* decode to it.  Blocks of two payloads are a byte string no set wrote: load
\* raises on it, or decodes it to a dict with the timestamp of the first block
\* and products of both.
GetTest(r) ==
    /\ io.r[r].pc = "loaded"
    /\ \E decoded \in (IF Whole(io.r[r].buf) THEN {TRUE} ELSE BOOLEAN) :
          io' = IF ~decoded
                THEN [io EXCEPT !.r[r] = Returned(@, "torn", "absent")]
                ELSE IF Fresh([timestamp |-> Stamp(io.r[r].buf[1][1])], now)
                THEN [io EXCEPT !.r[r] = Returned(@, IF Whole(io.r[r].buf) THEN "none" ELSE "torn",
                                               IF Whole(io.r[r].buf) THEN io.r[r].buf[1][1] ELSE "mixed")]
                ELSE [io EXCEPT !.r[r].pc = "unlinking"]
    /\ UNCHANGED <<adapterVars, cacheVars, engineVars, disk>>

\* line 203, cache_path.unlink(): the name is removed, whatever file it names
\* by now; without a file it raises FileNotFoundError, which line 204 catches
GetUnlink(r) ==
    /\ io.r[r].pc = "unlinking"
    /\ disk' = [disk EXCEPT !.path = 0]
    /\ io' = [io EXCEPT !.r[r] = Returned(@, IF disk.path = 0 THEN "vanished" ELSE "stale", "absent")]
    /\ UNCHANGED <<adapterVars, cacheVars, engineVars>>

\* ------------------------------------------------------------------------
\* T2Scrap.search (src/main.py:1189-1249) behind the front-end (src/app.py)
\*
\* app.py holds one engine (line 15) and runs each request's search on a
\* thread of the default executor (lines 61-64), so calls overlap: Callers
\* are those threads.  A step is one access to what the threads share (the
\* accumulator, the cache files, the history) together with the thread-local
\* work around it.  list.sort is taken as one step; a sort that another
\* thread's extend interrupts only adds outcomes to those modelled.
\* ------------------------------------------------------------------------
Callers == {"a", "b"}

\* the scrapers the model registers: the first two of ScraperNames
Scrapers == {ScraperNames[1], ScraperNames[2]}

\* the query of the requests, in a spelling the cache key normalises
EngineQueries == {Q_TV}

\* what scraper.search(query) may do: return a list, or raise
Outcomes(platform) ==
    {[raised |-> TRUE, products |-> <<>>]}
    \cup {[raised |-> FALSE, products |-> l] : l \in SearchLists(platform)}

IdleCall == [pc |-> "idle", query |-> <<>>, use_cache |-> FALSE, products |-> <<>>]

\* a unit: st is "idle" (no call), "queued" (submitted), "running" (past the
\* cache lookup, in scraper.search), "done" (search_platform returned) or
\* "locked" (its future was taken by the as_completed loop, which holds the
\* lock) or "collected" (its products are in the accumulator)
IdleUnit ==
    [st |-> "idle", submits |-> 0, lookup |-> "none", cached |-> <<>>, invoked |-> 0,
     products |-> <<>>, from_cache |-> FALSE]

\* the units of the call's pool that hold a worker
Running(c) == Cardinality({s \in Scrapers : unit[c][s].st = "running"})

\* line 1190 and lines 1212-1213: the accumulator is rebound to an empty list
\* and one unit per scraper is submitted
Search(c) ==
    /\ call[c].pc = "idle"
    /\ \E query \in EngineQueries, use_cache \in BOOLEAN :
           call' = [call EXCEPT ![c] = [pc |-> "join", query |-> query,
                                        use_cache |-> use_cache, products |-> <<>>]]
    /\ acc' = <<>>
    /\ unit' = [unit EXCEPT ![c] =
                   [s \in Scrapers |-> [IdleUnit EXCEPT !.st = "queued", !.submits = 1]]]
    /\ UNCHANGED <<disk, io, adapterVars, cacheVars, lock, history>>

\* a unit that never takes the cached list
UseCachedNever(cached) == FALSE

\* line 1200, if cached: None and the empty list are both false
UseCached(cached) == cached.hit /\ cached.products # <<>>

\* lines 1198-1201: the unit consults the cache
UnitLookup(c, s) ==
    /\ unit[c][s].st = "queued"
    /\ call[c].use_cache
    /\ Running(c) < MAX_WORKERS
    /\ LET cached == cache_get(cache, now, s, call[c].query)
       IN  /\ cache' = cache_get_store(cache, now, s, call[c].query)
           /\ unit' = [unit EXCEPT ![c][s] =
                  IF UseCached(cached)
                  THEN [@ EXCEPT !.st = "done", !.lookup = "hit",
                                 !.cached = cached.products,
                                 !.products = cached.products, !.from_cache = TRUE]
                  ELSE [@ EXCEPT !.st = "running",
                                 !.lookup = IF cached.hit THEN "hit" ELSE "miss",
                                 !.cached = cached.products]]
    /\ UNCHANGED <<disk, io, adapterVars, now, c_op, c_valid, c_written, call, acc, lock, history>>

\* a write-back that does not look at use_cache
ShouldCacheAlways(products, use_cache) == products # <<>>

\* a write-back that does not look at the list
ShouldCacheEmpty(products, use_cache) == use_cache

\* line 1205, if products and use_cache
ShouldCache(products, use_cache) == products # <<>> /\ use_cache

\* lines 1203-1210: the unit calls the adapter and writes the result back
UnitSearch(c, s) ==
    /\ \/ unit[c][s].st = "running"
       \/ /\ unit[c][s].st = "queued"
          /\ ~call[c].use_cache
          /\ Running(c) < MAX_WORKERS
    /\ \E outcome \in Outcomes(s) :
           /\ unit' = [unit EXCEPT ![c][s] =
                  [@ EXCEPT !.st = "done", !.invoked = @ + 1,
                            !.products = outcome.products]]
           /\ cache' = IF ~outcome.raised /\ ShouldCache(outcome.products, call[c].use_cache)
                       THEN cache_set(cache, now, s, call[c].query, outcome.products)
                       ELSE cache
    /\ UNCHANGED <<disk, io, adapterVars, now, c_op, c_valid, c_written, call, acc, lock, history>>

\* lines 1215-1218: one turn of the as_completed loop takes a finished future
\* and enters with self._lock, which blocks while another thread holds it
Acquire(c, s) ==
    /\ call[c].pc = "join"
    /\ unit[c][s].st = "done"
    /\ lock = "none"
    /\ lock' = c
    /\ unit' = [unit EXCEPT ![c][s].st = "locked"]
    /\ UNCHANGED <<disk, io, adapterVars, cacheVars, call, acc, history>>

\* line 1219: the extend, and the end of the with block, which releases the lock
Collect(c, s) ==
    /\ call[c].pc = "join"
    /\ unit[c][s].st = "locked"
    /\ acc' = acc \o unit[c][s].products
    /\ lock' = "none"
    /\ unit' = [unit EXCEPT ![c][s].st = "collected"]
    /\ UNCHANGED <<disk, io, adapterVars, cacheVars, call, history>>

\* a join that is over with the first future taken
JoinAny(c) == \E s \in Scrapers : unit[c][s].st = "collected"

\* the as_completed loop ends, and the with block is left, when every future
\* has been taken
JoinDone(c) == \A s \in Scrapers : unit[c][s].st = "collected"

\* line 1232
Sort(c) ==
    /\ call[c].pc = "join"
    /\ JoinDone(c)
    /\ acc' = SortByPrice(acc)
    /\ call' = [call EXCEPT ![c].pc = "sorted"]
    /\ UNCHANGED <<disk, io, adapterVars, cacheVars, unit, lock, history>>

\* lines 1236-1240: products=self._current_results.copy()
Build(c) ==
    /\ call[c].pc = "sorted"
    /\ call' = [call EXCEPT ![c].pc = "built", ![c].products = acc]
    /\ UNCHANGED <<disk, io, adapterVars, cacheVars, unit, acc, lock, history>>

\* line 1242 and lines 250-260: history.add builds the entry and appends it
HistoryAdd(c) ==
    /\ call[c].pc = "built"
    /\ history' = Append(history, HistoryEntry(call[c].query, call[c].products))
    /\ call' = [call EXCEPT ![c].pc = "saving"]
    /\ UNCHANGED <<disk, io, adapterVars, cacheVars, unit, acc, lock>>

\* line 261 and lines 1243-1249: history.add writes the file; _save has no try
\* block, so a write that fails raises out of search.  The call is over either
\* way: its futures and its result leave the model.
HistorySave(c) ==
    /\ call[c].pc = "saving"
    /\ \E saved \in BOOLEAN :
           call' = [call EXCEPT ![c] =
                       [IdleCall EXCEPT !.pc = IF saved THEN "returned" ELSE "raised"]]
    /\ unit' = [unit EXCEPT ![c] = [s \in Scrapers |-> IdleUnit]]
    /\ UNCHANGED <<disk, io, adapterVars, cacheVars, acc, lock, history>>

\* ------------------------------------------------------------------------
\* Specifications
\* ------------------------------------------------------------------------
\* the state after T2Scrap() is constructed, with an empty cache directory
Init ==
    /\ a_name = "none"
    /\ a_in = [api |-> NoApi, page |-> NoResponse]
    /\ a_out = <<>>
    /\ a_raised = FALSE
    /\ fetch = NoFetch
    /\ px = NoPrice
    /\ bu = NoUrl
    /\ cache = EmptyStore
    /\ now = 0
    /\ c_op = NoOp
    /\ c_valid = TRUE
    /\ c_written = [k \in AllKeys |-> NoWrite]
    /\ call = [c \in Callers |-> IdleCall]
    /\ unit = [c \in Callers |-> [s \in Scrapers |-> IdleUnit]]
    /\ acc = <<>>
    /\ lock = "none"
    /\ history = <<>>
    /\ disk = NoDisk
    /\ io = NoIo

\* the engine under overlapping requests
Next ==
    \/ \E c \in Callers : Search(c)
    \/ \E c \in Callers, s \in Scrapers : UnitLookup(c, s)
    \/ \E c \in Callers, s \in Scrapers : UnitSearch(c, s)
    \/ \E c \in Callers, s \in Scrapers : Acquire(c, s)
    \/ \E c \in Callers, s \in Scrapers : Collect(c, s)
    \/ \E c \in Callers : Sort(c)
    \/ \E c \in Callers : Build(c)
    \/ \E c \in Callers : HistoryAdd(c)
    \/ \E c \in Callers : HistorySave(c)
    \/ Tick

Spec == Init /\ [][Next]_vars

\* the steps of a call that is under way: those of its units' threads and of
\* the thread that runs search
Progress(c) ==
    \/ \E s \in Scrapers : UnitLookup(c, s) \/ UnitSearch(c, s) \/ Acquire(c, s) \/ Collect(c, s)
    \/ Sort(c) \/ Build(c) \/ HistoryAdd(c) \/ HistorySave(c)

\* the same, with threads that run: the interpreter leaves no runnable thread
\* of a call waiting forever, and an adapter call ends because each of its
\* fetches ends (timeout=Config.TIMEOUT, range(MAX_RETRIES)).  Nothing makes
\* a request arrive; the searches are over before the clock moves on.
NextLive == \E c \in Callers : Search(c) \/ Progress(c)

SpecLive == Init /\ [][NextLive]_vars /\ \A c \in Callers : WF_vars(Progress(c))

\* the adapters alone
NextAdapters ==
    \/ RunDaraz
    \/ RunEbay
    \/ RunAliExpress
    \/ RunAmazon
    \/ RunFlipkart
    \/ RunWalmart
    \/ Forget

SpecAdapters == Init /\ [][NextAdapters]_vars

\* extract_price alone, on every text of PriceInputs
InitPrice ==
    /\ a_name = "none"
    /\ a_in = [api |-> NoApi, page |-> NoResponse]
    /\ a_out = <<>>
    /\ a_raised = FALSE
    /\ fetch = NoFetch
    /\ px \in PriceInputs
    /\ bu = NoUrl
    /\ cache = EmptyStore
    /\ now = 0
    /\ c_op = NoOp
    /\ c_valid = TRUE
    /\ c_written = [k \in AllKeys |-> NoWrite]
    /\ call = [c \in Callers |-> IdleCall]
    /\ unit = [c \in Callers |-> [s \in Scrapers |-> IdleUnit]]
    /\ acc = <<>>
    /\ lock = "none"
    /\ history = <<>>
    /\ disk = NoDisk
    /\ io = NoIo

NextPrice == ExtractPrice

SpecPrice == InitPrice /\ [][NextPrice]_vars

\* _build_product_url alone, on every item drawn
InitUrl ==
    /\ a_name = "none"
    /\ a_in = [api |-> NoApi, page |-> NoResponse]
    /\ a_out = <<>>
    /\ a_raised = FALSE
    /\ fetch = NoFetch
    /\ px = NoPrice
    /\ bu \in UrlInputs
    /\ cache = EmptyStore
    /\ now = 0
    /\ c_op = NoOp
    /\ c_valid = TRUE
    /\ c_written = [k \in AllKeys |-> NoWrite]
    /\ call = [c \in Callers |-> IdleCall]
    /\ unit = [c \in Callers |-> [s \in Scrapers |-> IdleUnit]]
    /\ acc = <<>>
    /\ lock = "none"
    /\ history = <<>>
    /\ disk = NoDisk
    /\ io = NoIo

NextUrl == BuildProductUrl

SpecUrl == InitUrl /\ [][NextUrl]_vars

\* the fetches alone
NextFetch ==
    \/ MakeRequest
    \/ Attempt
    \/ Sleep
    \/ SearchApiGet
    \/ FetchReturn

SpecFetch == Init /\ [][NextFetch]_vars

\* the gets and the sets of overlapping requests on one cache file, at a time when an
\* entry written at 0 has just gone stale
InitFile ==
    /\ a_name = "none"
    /\ a_in = [api |-> NoApi, page |-> NoResponse]
    /\ a_out = <<>>
    /\ a_raised = FALSE
    /\ fetch = NoFetch
    /\ px = NoPrice
    /\ bu = NoUrl
    /\ cache = EmptyStore
    /\ now = CACHE_TTL
    /\ c_op = NoOp
    /\ c_valid = TRUE
    /\ c_written = [k \in AllKeys |-> NoWrite]
    /\ call = [c \in Callers |-> IdleCall]
    /\ unit = [c \in Callers |-> [s \in Scrapers |-> IdleUnit]]
    /\ acc = <<>>
    /\ lock = "none"
    /\ history = <<>>
    /\ disk \in InitialDisks
    /\ io = NoIo

NextFile ==
    \/ \E w \in Writers : SetOpen(w)
    \/ \E w \in Writers : SetWrite(w)
    \/ \E r \in Readers : GetExists(r)
    \/ \E r \in Readers : GetOpen(r)
    \/ \E r \in Readers : GetRead(r)
    \/ \E r \in Readers : GetTest(r)
    \/ \E r \in Readers : GetUnlink(r)

SpecFile == InitFile /\ [][NextFile]_vars

\* the cache directory as construction may find it (mkdir(exist_ok=True) keeps
\* what earlier runs left): empty, or with one file, decodable or not
InitialStores ==
    {EmptyStore}
    \cup {[EmptyStore EXCEPT ![CacheKey(p, Q_tv)] = Corrupt] : p \in {"Daraz", "eBay"}}
    \cup {[EmptyStore EXCEPT ![CacheKey(p, Q_tv)] = Entry(0, <<Offer(p, 300)>>)] :
              p \in {"Daraz", "eBay"}}

InitCache ==
    /\ a_name = "none"
    /\ a_in = [api |-> NoApi, page |-> NoResponse]
    /\ a_out = <<>>
    /\ a_raised = FALSE
    /\ fetch = NoFetch
    /\ px = NoPrice
    /\ bu = NoUrl
    /\ cache \in InitialStores
    /\ now = 0
    /\ c_op = NoOp
    /\ c_valid = (cache = EmptyStore)
    /\ c_written = [k \in AllKeys |-> NoWrite]
    /\ call = [c \in Callers |-> IdleCall]
    /\ unit = [c \in Callers |-> [s \in Scrapers |-> IdleUnit]]
    /\ acc = <<>>
    /\ lock = "none"
    /\ history = <<>>
    /\ disk = NoDisk
    /\ io = NoIo

NextCache ==
    \/ ClientSet
    \/ ClientGet
    \/ ClientClear
    \/ ClientStats
    \/ Tick

SpecCache == InitCache /\ [][NextCache]_vars

\* get and set alone, as time passes
NextKey ==
    \/ ClientSet
    \/ ClientGet
    \/ Tick

SpecKey == InitCache /\ [][NextKey]_vars

\* ------------------------------------------------------------------------
\* Properties of the adapters (SpecAdapters)
\* ------------------------------------------------------------------------
\* C4: every Product an adapter returns has a price greater than zero, on
\* every extraction path.
\* Violated: DarazScraper._search_html takes the price of an embedded-JSON item
\* under `if not price` (lines 569-571), which a negative number passes, and
\* AmazonScraper.search falls back to float(.a-price-whole) (lines 935-945),
\* which reads "-5" as -5.0.
C4_PricesPositive == \A i \in 1..Len(a_out) : a_out[i].price > 0

\* C11: no adapter's search raises past its own boundary: whatever the
\* storefront answers, search returns a list.
\* Violated: DarazScraper._search_html reads an embedded window.pageData under
\* `except json.JSONDecodeError` alone (lines 561-592), so a pageData whose
\* 'mods' is null raises AttributeError out of _search_html and out of
\* DarazScraper.search (lines 338-343), which has no try block.
C11_AdaptersNeverRaise == ~a_raised

\* C13: every adapter's search returns at most RESULTS_PER_SITE products,
\* whatever the page holds.
\* Violated: AliExpressScraper.search caps the "productId" matches of each
\* script block (line 813) and the cards (line 826) and returns products
\* uncapped (line 867), so two script blocks give up to twice the cap.
C13_AtMostResultsPerSite == Len(a_out) <= RESULTS_PER_SITE

\* ------------------------------------------------------------------------
\* Properties of extract_price (SpecPrice)
\* ------------------------------------------------------------------------
\* the entries of the symbol table that occur in the text
SymbolsIn(t) == {k \in 1..Len(currency_map) : Contains(t, currency_map[k].symbol)}

T_1299 == <<"$","1",",","2","9","9",".","0","0">>

T_4500 == <<"R","s","."," ","4",",","5","0","0">>

\* C14: extract_price(text, default) returns the currency of the first entry
\* of the symbol table that occurs in text, or default when none occurs, and
\* the value of the first number left once the symbol, the currency codes,
\* the commas and the whitespace are gone, or absent when no number is left;
\* ("$1,299.00", "USD") gives (1299.00, "USD"), ("Rs. 4,500", "NPR") gives
\* (4500.0, "INR") and ("", "USD") gives (absent, "USD").
C14_ExtractPrice ==
    px.pc = "returned" =>
        /\ px.ret.currency =
               IF SymbolsIn(px.text) = {} THEN px.default_currency
               ELSE currency_map[CHOOSE k \in SymbolsIn(px.text) :
                                     \A m \in SymbolsIn(px.text) : k <= m].curr
        /\ px.ret.value = px.number
        /\ (px.text = T_1299 /\ px.default_currency = "USD") =>
               px.ret = [value |-> Some(129900), currency |-> "USD"]
        /\ (px.text = T_4500 /\ px.default_currency = "NPR") =>
               px.ret = [value |-> Some(450000), currency |-> "INR"]
        /\ (px.text = <<>> /\ px.default_currency = "USD") =>
               px.ret = [value |-> None, currency |-> "USD"]

\* extract_price has returned (4500.0, "INR") for "Rs. 4,500" and default NPR
C14_Witness ==
    /\ px.pc = "returned"
    /\ px.text = T_4500
    /\ px.default_currency = "NPR"
    /\ px.ret = [value |-> Some(450000), currency |-> "INR"]

\* the default currency of each variant (lines 335, 697, 793, 880, 1013, 1115)
VariantCurrency(name) ==
    CASE name = "Daraz" -> "NPR"
      [] name = "Flipkart" -> "INR"
      [] OTHER -> "USD"

\* the currency a price text names: that of its first symbol, or the default
CurrencyOfText(text, default_currency) ==
    IF SymbolsIn(text) = {} THEN default_currency
    ELSE currency_map[CHOOSE k \in SymbolsIn(text) :
                          \A m \in SymbolsIn(text) : k <= m].curr

\* C15: the currency of a Product built from a price text is the currency of
\* the symbol in that text when there is one, and the variant's default
\* currency otherwise.  Stated on the pages with one card that gave a product.
\* Violated: every adapter drops the currency extract_price returns
\* (`price, _ = extract_price(...)`, lines 643, 735, 836, 1053, 1146) and
\* builds the Product with currency=self.currency.
C15_CurrencyOfSymbol ==
    LET cards == IF a_name = "eBay"
                 THEN (IF a_in.page.selections = <<>> THEN <<>>
                       ELSE Head(a_in.page.selections))
                 ELSE FirstNonEmpty(a_in.page.selections)
    IN  ( /\ a_name \in {"Daraz", "eBay", "AliExpress", "Flipkart", "Walmart"}
          /\ a_in.page.ok
          /\ a_in.page.scripts = <<>>
          /\ Len(cards) = 1
          /\ Len(a_out) = 1 ) =>
            a_out[1].currency =
                CurrencyOfText(FirstFound(cards[1].price).text, VariantCurrency(a_name))

\* the name a candidate element yields: Walmart reads the text only
NameYielded(adapter, e) ==
    IF ~e.found THEN <<>>
    ELSE IF adapter = "Walmart" THEN clean_text(e.text)
    ELSE clean_text(TextOrTitle(e))

\* the price a candidate element yields, None when its text holds none
PriceYielded(adapter, e) ==
    IF ~e.found THEN None ELSE extract_price(e.text, VariantCurrency(adapter)).value

\* the name of the first candidate of the chain that yields one
RECURSIVE FirstName(_, _)
FirstName(adapter, chain) ==
    IF chain = <<>> THEN <<>>
    ELSE IF NameYielded(adapter, Head(chain)) # <<>> THEN NameYielded(adapter, Head(chain))
    ELSE FirstName(adapter, Tail(chain))

\* the price of the first candidate of the chain that yields a positive one
RECURSIVE FirstPrice(_, _)
FirstPrice(adapter, chain) ==
    IF chain = <<>> THEN None
    ELSE IF Truthy(PriceYielded(adapter, Head(chain))) THEN PriceYielded(adapter, Head(chain))
    ELSE FirstPrice(adapter, Tail(chain))

\* C22: the name and the price of a card are those of the first candidate
\* locator, in the chain's order, that yields a value, and a card is skipped
\* only when no candidate of a chain yields one.  Stated on the documents with
\* one card.
\* Violated: the chains are `a or b or c` over select_one results (lines
\* 617-623, 633-638, 1035-1040, 1047-1050, 1136, 1143), and a Tag is true
\* whatever it holds, so the first element found is taken; when it yields
\* nothing the card is skipped (lines 629, 644) and the later candidates are
\* never read.
C22_FirstYieldingCandidate ==
    LET cards == FirstNonEmpty(a_in.page.selections)
    IN  ( /\ a_name \in {"Daraz", "Flipkart", "Walmart"}
          /\ a_in.page.ok
          /\ a_in.page.scripts = <<>>
          /\ Len(cards) = 1 ) =>
            LET name == FirstName(a_name, cards[1].name)
                price == FirstPrice(a_name, cards[1].price)
            IN  IF name # <<>> /\ Truthy(price)
                THEN /\ Len(a_out) = 1
                     /\ a_out[1].name = name
                     /\ a_out[1].price = price.v
                ELSE a_out = <<>>

\* ------------------------------------------------------------------------
\* Properties of the network fetches (SpecFetch)
\* ------------------------------------------------------------------------
\* an attempt that got a 2xx response
Success(o) == 200 <= o /\ o <= 299

\* C12: every fetch of an adapter follows the retry policy: a failed attempt
\* (an exception, a status outside 2xx) is followed by the next one until
\* MAX_RETRIES attempts were made, the first 2xx response ends the fetch and
\* is returned, and a fetch yields no response only after MAX_RETRIES failed
\* attempts.
\* Violated: DarazScraper._search_api calls self.session.get once (line 414),
\* not through _make_request, so one failed attempt ends that fetch; and
\* _make_request takes status 200 alone for a success (line 310).
C12_FetchFollowsRetryPolicy ==
    /\ Len(fetch.log) <= MAX_RETRIES
    /\ \A i \in 1..(Len(fetch.log) - 1) : ~Success(fetch.log[i])
    /\ fetch.pc = "done" =>
           IF fetch.response.some
           THEN fetch.response.v = fetch.log[Len(fetch.log)] /\ Success(fetch.response.v)
           ELSE /\ Len(fetch.log) = MAX_RETRIES
                /\ ~Success(fetch.log[Len(fetch.log)])

\* ------------------------------------------------------------------------
\* Properties of the CacheManager (SpecCache)
\* ------------------------------------------------------------------------
\* a step that is one call of get, of clear, of get_stats
GetStep == c_op'.op = "get" /\ now' = now

ClearStep == c_op'.op = "clear" /\ now' = now

StatsStep == c_op'.op = "stats" /\ now' = now

\* the keys set has written since the directory was last empty
Written == {k \in AllKeys : c_written[k].some}

\* C6: get(source, query) after set(source, query, P) returns P while less
\* than CACHE_TTL seconds have passed since the set, under any spelling of the
\* query with the same normalised key; from CACHE_TTL seconds on it returns
\* absent and the entry is deleted.
C6_CacheRoundTrip ==
    [][GetStep =>
        LET k == CacheKey(c_op'.platform, c_op'.query)
            w == c_written[k]
        IN  w.some =>
              IF now - w.timestamp < CACHE_TTL
              THEN c_op'.ret = Hit(w.products) /\ cache' = cache
              ELSE c_op'.ret = Absent /\ cache'[k] = NoEntry]_vars

\* a get has just found the list written under another spelling out of date,
\* and the file is gone
C6_Witness ==
    /\ c_op.op = "get"
    /\ c_op.query = Q_TV
    /\ LET w == c_written[CacheKey(c_op.platform, c_op.query)]
       IN  w.some /\ w.products # <<>> /\ now - w.timestamp >= CACHE_TTL
    /\ c_op.ret = Absent
    /\ cache[CacheKey(c_op.platform, c_op.query)] = NoEntry

\* C16: whenever get finds under its key an entry that is stale or that does
\* not decode, it returns absent and deletes the entry.
\* Violated: pickle.load raises on a file that does not decode, the except
\* clause of lines 204-205 swallows the exception, and the unlink of line 203
\* is never reached: get returns None and the file stays.
C16_StaleOrUndecodableEvicted ==
    [][GetStep =>
        LET k == CacheKey(c_op'.platform, c_op'.query)
        IN  ( \/ cache[k].kind = "corrupt"
              \/ cache[k].kind = "pickle" /\ now - cache[k].timestamp >= CACHE_TTL ) =>
                c_op'.ret = Absent /\ cache'[k] = NoEntry]_vars

\* the pairs of calls that address the same source with queries that differ at
\* most in letter case and surrounding whitespace
Spellings ==
    {pp \in CacheCalls \X CacheCalls :
        /\ pp[1][1] = pp[2][1]
        /\ Strip(LowerStr(pp[1][2])) = Strip(LowerStr(pp[2][2]))}

SameEntry(pq1, pq2) == <<pq1, pq2>> \in Spellings

SetStep == c_op'.op = "set" /\ now' = now

\* C17: the cache key depends only on the source and the lower-cased, trimmed
\* query: after set(source, q, P) a get under every spelling of q returns P,
\* and a get under another source or another normalised query returns what it
\* returned before the set.
C17_KeyIsSourceAndNormalisedQuery ==
    [][SetStep =>
        \A pq \in CacheCalls :
            IF SameEntry(pq, <<c_op'.platform, c_op'.query>>)
            THEN cache_get(cache', now, pq[1], pq[2]) = c_op'.ret
            ELSE cache_get(cache', now, pq[1], pq[2]) = cache_get(cache, now, pq[1], pq[2])]_vars

\* a list was just set under " TV": it is what get("Daraz", "tv") returns, and
\* get("eBay", "tv") and get("Daraz", "pc") return nothing
C17_Witness ==
    /\ c_op.op = "set"
    /\ c_op.platform = "Daraz"
    /\ c_op.query = Q_TV
    /\ c_op.ret.products # <<>>
    /\ cache_get(cache, now, "Daraz", Q_tv) = c_op.ret
    /\ cache_get(cache, now, "eBay", Q_tv) = Absent
    /\ cache_get(cache, now, "Daraz", Q_pc) = Absent

\* C21: set replaces whatever the key held: a get under the same key then
\* returns the list just given, for exactly a TTL from the time of this set,
\* and a set on a key that a get would have hit leaves the entry count as it was.
C21_SetReplaces ==
    [][SetStep =>
        /\ cache_get(cache', now, c_op'.platform, c_op'.query) = c_op'.ret
        /\ cache_get(cache', now + CACHE_TTL - 1, c_op'.platform, c_op'.query) = c_op'.ret
        /\ cache_get(cache', now + CACHE_TTL, c_op'.platform, c_op'.query) = Absent
        /\ cache_get_stats(cache') \in {cache_get_stats(cache), cache_get_stats(cache) + 1}
        /\ cache_get(cache, now, c_op'.platform, c_op'.query).hit =>
               cache_get_stats(cache') = cache_get_stats(cache)]_vars

\* a second list was just set, half a TTL after the first, on a key whose get
\* would have returned the first: get returns the second, and there is one entry
C21_Witness ==
    /\ c_op.op = "set"
    /\ c_op.n = 1
    /\ now = TickStep
    /\ c_op.ret.products = <<Offer("Daraz", 500), Offer("Daraz", 100)>>
    /\ c_written[CacheKey("Daraz", Q_tv)].timestamp = now
    /\ cache_get(cache, now, c_op.platform, c_op.query) = c_op.ret
    /\ cache_get_stats(cache) = 1

\* C10: clear() deletes every entry and returns the number deleted: K after K
\* sets under pairwise distinct keys into an empty directory; get_stats then
\* reports 0 entries until the next set.
C10_ClearReturnsCount ==
    [][/\ ClearStep =>
            /\ c_op'.n = Cardinality(Files(cache))
            /\ Files(cache') = {}
            /\ c_valid => c_op'.n = Cardinality(Written)
       /\ (StatsStep /\ c_valid /\ Written = {}) => c_op'.n = 0]_vars

\* a clear has just deleted the files of two or more distinct keys and left
\* the directory empty
C10_Witness ==
    /\ c_op.op = "clear"
    /\ c_op.n >= 2
    /\ c_valid
    /\ Files(cache) = {}

\* ------------------------------------------------------------------------
\* Properties of T2Scrap.search (Spec)
\* ------------------------------------------------------------------------
\* the call has built its SearchResult and not yet returned it
Built(c) == call[c].pc = "built"

\* the number of products the units of the call returned
RECURSIVE UnitProducts(_, _)
UnitProducts(c, S) ==
    IF S = {} THEN 0
    ELSE LET s == CHOOSE x \in S : TRUE
         IN  Len(unit[c][s].products) + UnitProducts(c, S \ {s})

\* C1: the products of the SearchResult search returns are in non-decreasing
\* order of price.
\* Violated when two requests overlap: both calls sort and copy the one list
\* self._current_results (lines 1232 and 1238) outside the lock, so a call
\* copies the list after the other call has extended it.
C1_ProductsSorted ==
    \A c \in Callers :
        Built(c) =>
            \A i \in 1..(Len(call[c].products) - 1) :
                call[c].products[i].price <= call[c].products[i + 1].price

\* C2: search raises nothing, whatever an adapter or a collaborator does.
\* Violated: SearchHistory._save (lines 246-248) opens and writes the history
\* file outside any try block, and search calls history.add (line 1242)
\* outside any try block.
C2_NeverRaises == \A c \in Callers : call[c].pc # "raised"

\* C3: the result holds exactly the products the units of the call returned:
\* platforms_searched is the set of sources that returned a product and
\* total_products is the sum of the lengths of the lists returned.
\* Violated when two requests overlap: line 1190 of one call rebinds the list
\* the other call is extending, and each call's result is a copy of that list.
C3_MergeKeepsEveryList ==
    \A c \in Callers :
        Built(c) =>
            /\ platforms_searched(call[c].products) =
                   {s \in Scrapers : unit[c][s].products # <<>>}
            /\ total_products(call[c].products) = UnitProducts(c, Scrapers)

\* how many times product x stands in the list
CountIn(sq, x) == Cardinality({i \in 1..Len(sq) : sq[i] = x})

\* how many times the units of the call returned product x
RECURSIVE OwnCount(_, _, _)
OwnCount(c, S, x) ==
    IF S = {} THEN 0
    ELSE LET s == CHOOSE y \in S : TRUE
         IN  CountIn(unit[c][s].products, x) + OwnCount(c, S \ {s}, x)

\* the products the call's result or one of its units holds
Seen(c) ==
    {call[c].products[i] : i \in 1..Len(call[c].products)}
        \cup UNION {{unit[c][s].products[i] : i \in 1..Len(unit[c][s].products)} :
                       s \in Scrapers}

\* C24: with two calls running on one engine, the result of each call holds
\* every product its own units delivered, as many times as they delivered it,
\* and no other product.
\* Violated: both calls accumulate into the one list self._current_results
\* (line 1183): a call's reset (line 1190) empties what the other has
\* collected and a call's extend (line 1219) lands in the list the other copies.
C24_EachResultHoldsItsOwnProducts ==
    \A c \in Callers :
        Built(c) =>
            \A x \in Seen(c) : CountIn(call[c].products, x) = OwnCount(c, Scrapers, x)

\* C5: when products is not empty best_deal is products[0] and price_range is
\* (least price, greatest price); when it is empty price_range is (0, 0).
\* Violated when two requests overlap: the list is not sorted (C1), and
\* best_deal is the product of least price wherever it stands.
C5_BestDealIsFirst ==
    \A c \in Callers :
        Built(c) =>
            IF call[c].products # <<>>
            THEN /\ best_deal(call[c].products) = call[c].products[1]
                 /\ price_range(call[c].products) =
                        <<MinPrice(call[c].products), MaxPrice(call[c].products)>>
            ELSE price_range(call[c].products) = <<0, 0>>

\* C7: a unit calls its adapter exactly when use_cache is false or the lookup
\* missed; on a hit it returns the cached list without calling the adapter;
\* each call submits one unit per registered adapter.
C7_AdapterCalledIffMiss ==
    \A c \in Callers, s \in Scrapers :
        LET u == unit[c][s]
        IN  /\ u.invoked <= 1
            /\ call[c].pc \in {"join", "sorted", "built", "saving"} => u.submits = 1
            /\ u.st \in {"done", "locked", "collected"} =>
                   /\ (u.invoked = 1) <=> (~call[c].use_cache \/ u.lookup = "miss")
                   /\ u.lookup = "hit" =>
                          /\ u.invoked = 0
                          /\ u.from_cache
                          /\ u.products = u.cached
                   /\ ~call[c].use_cache => u.lookup = "none"

\* a unit has returned the list another call wrote, without calling its adapter
C7_Witness ==
    \E c \in Callers, s \in Scrapers :
        /\ call[c].use_cache
        /\ unit[c][s].st = "done"
        /\ unit[c][s].lookup = "hit"
        /\ unit[c][s].invoked = 0
        /\ unit[c][s].products # <<>>

\* the step in which the unit's adapter returns a list that is not empty
AdapterReturned(c, s) ==
    /\ unit[c][s].st \in {"queued", "running"}
    /\ unit'[c][s].st = "done"
    /\ unit'[c][s].invoked = unit[c][s].invoked + 1
    /\ unit'[c][s].products # <<>>

AdapterEnded(c, s) == unit'[c][s].invoked = unit[c][s].invoked + 1

\* the step in which the unit takes the list the cache holds
ServedFromCache(c, s) ==
    /\ unit[c][s].st = "queued"
    /\ unit'[c][s].st = "done"
    /\ unit'[c][s].from_cache

\* C26: every entry search writes to the cache is the list, not empty, that an
\* adapter call of that step returned, under that unit's key; a unit whose
\* adapter returned the empty list or raised leaves the cache as it was; so a
\* unit is never served an empty list from the cache, and the next search of
\* a source that failed looks up, misses and calls the adapter again.
C26_OnlyReturnedListsCached ==
    [][/\ cache' # cache =>
              \A k \in AllKeys :
                  cache'[k] # cache[k] /\ cache'[k].kind # "none" =>
                      \E c \in Callers, s \in Scrapers :
                          /\ AdapterEnded(c, s)
                          /\ k = CacheKey(s, call[c].query)
                          /\ unit'[c][s].products # <<>>
                          /\ cache'[k] = Entry(now, unit'[c][s].products)
       /\ \A c \in Callers, s \in Scrapers :
              /\ AdapterEnded(c, s) /\ unit'[c][s].products = <<>> => cache' = cache
              /\ ServedFromCache(c, s) => unit'[c][s].products # <<>>]_vars

\* a caching call's unit got nothing from its adapter, nothing is cached under
\* its key at that time, and the other call's unit for the same source, which
\* also caches, has missed and called the adapter again
C26_Witness ==
    \E c \in Callers, d \in Callers, s \in Scrapers :
        /\ c # d
        /\ call[c].use_cache /\ call[d].use_cache
        /\ call[c].pc = "built"
        /\ unit[c][s].invoked = 1 /\ unit[c][s].products = <<>>
        /\ unit[d][s].st = "done"
        /\ unit[d][s].lookup = "miss" /\ unit[d][s].invoked = 1
        /\ unit[d][s].products = <<>>
        /\ cache[CacheKey(s, call[d].query)].kind = "none"

\* C27: every search call that has started comes to return its SearchResult:
\* each unit ends, the join takes every future and the lock in turn, and the
\* call goes on to sort, build and return.
\* Violated in its last step only: every call gets through the join, with no
\* wait on a unit or on the lock that does not end, but history.add (line
\* 1242) can raise out of search (C2), and the call then returns nothing.
C27_EverySearchReturns ==
    \A c \in Callers : (call[c].pc = "join") ~> (call[c].pc = "returned")

\* C9: search sorts and builds its result only when every unit it submitted
\* has finished and been collected; none is abandoned.
C9_FullJoin ==
    \A c \in Callers :
        call[c].pc \in {"sorted", "built", "saving"} =>
            \A s \in Scrapers : unit[c][s].submits = 1 /\ unit[c][s].st = "collected"

\* a call has built a result from both of its units, one of which called its
\* adapter and one of which did not
C9_Witness ==
    \E c \in Callers :
        /\ Built(c)
        /\ \A s \in Scrapers : unit[c][s].st = "collected"
        /\ \E s \in Scrapers : unit[c][s].invoked = 1
        /\ \E s \in Scrapers : unit[c][s].invoked = 0

\* the call's thread is inside history.add: it has appended its entry and is
\* writing the file
InHistoryAdd(c) == call[c].pc = "saving"

\* the calls that have reached line 1242 and appended
Appended == {c \in Callers : call[c].pc \in {"saving", "returned", "raised"}}

\* C18: each search call appends exactly one record to the history, after all
\* its units have finished and its SearchResult is built, and no two calls on
\* the engine are inside history.add at once.
\* Violated: history.add (lines 250-261) takes no lock, and app.py runs each
\* request's search on a thread of the executor (lines 61-64), so the thread
\* of one request appends while the thread of another is still in _save.
C18_OneAppendAfterJoinNeverConcurrent ==
    /\ Len(history) = Cardinality(Appended)
    /\ \A c \in Callers : InHistoryAdd(c) => \A s \in Scrapers : unit[c][s].st = "collected"
    /\ \A c1, c2 \in Callers : InHistoryAdd(c1) /\ InHistoryAdd(c2) => c1 = c2

\* the step is one of the call's thread
StepOf(c) == call'[c] # call[c] \/ unit'[c] # unit[c]

\* C19: self._current_results is changed only by a thread that holds
\* self._lock.
\* Violated: only the extend of line 1219 is inside with self._lock; line 1190
\* rebinds the list and line 1232 sorts it with the lock free.
C19_AccumulatorChangedUnderLock ==
    [][\A c \in Callers : StepOf(c) /\ acc' # acc => lock = c]_vars

\* ------------------------------------------------------------------------
\* Properties of get and set racing on one cache file (SpecFile)
\* ------------------------------------------------------------------------
\* every thread has returned
Quiet ==
    /\ \A r \in Readers : io.r[r].pc = "returned"
    /\ \A w \in Writers : io.w[w].pc = "closed"

\* C20: with a get and sets on one key interleaved at any point, the get
\* returns a complete payload that some set wrote or returns None; a get that
\* saw the file partly written or gone returns None; and when every thread
\* has returned the file holds the payload of the set that finished last.
\* Violated: a get that read a stale entry unlinks the path (line 203) after a
\* set has rewritten the file, so the entry just written is gone; and blocks
\* of two sets that overlap land in one file, which then holds no set's payload.
C20_GetSeesWholePayloadLastSetStays ==
    /\ \A r \in Readers :
          io.r[r].pc = "returned" =>
              /\ io.r[r].ret \in {"absent", OldPayload} \cup Writers
              /\ io.r[r].saw \in {"partial", "vanished"} => io.r[r].ret = "absent"
    /\ Quiet =>
          /\ disk.path # 0
          /\ disk.ino[disk.path] = Blocks(io.finished[Len(io.finished)])

\* the step in which get's unlink (line 203) takes the name off a file
Unlinks(r) == io.r[r].pc = "unlinking" /\ io'.r[r].pc = "returned" /\ disk.path # 0

\* C25: the unlink of a get that read the whole earlier entry and found it
\* stale never removes the entry a set has written since: the file it removes
\* is not the complete, fresh payload of a set that has returned.
\* Violated: unlink takes the path, not the file the get read (lines 196-203
\* hold no lock and compare nothing): a set that runs between the get's read
\* and its unlink loses the entry it wrote.
C25_UnlinkSparesFreshEntry ==
    [][\A r \in Readers :
          Unlinks(r) /\ io.r[r].buf = Blocks(OldPayload) =>
              \A w \in Writers :
                  ~(io.w[w].pc = "closed" /\ disk.ino[disk.path] = Blocks(w))]_vars

\* ------------------------------------------------------------------------
\* Properties of the Daraz link reconstruction (SpecUrl)
\* ------------------------------------------------------------------------
\* C23: an item that passes the price and name checks is emitted as one
\* Product whose url is the first of: a candidate link field that is an item
\* link (in the order of url_fields, made absolute), the link made of the
\* item's identifier and the slug of its name, the link made of the identifier
\* in the click-tracking text; and the empty url when none of the three gives
\* one.  An item that is skipped gets no url.
C23_UrlFromFirstMethodThatSucceeds ==
    bu.pc = "returned" =>
        IF bu.item.price = JNum(500)
        THEN Len(bu.ret.products) = 1 /\ bu.ret.url = bu.expect
        ELSE bu.ret = NoBuilt

\* an emitted item whose link field is a tracking stub, whose identifier is 0
\* and whose click-tracking text holds no identifier the pattern finds: it is
\* emitted with the empty url
C23_Witness ==
    /\ bu.pc = "returned"
    /\ bu.item.links[1] = JStr(<<"/", "t", "r", "a", "c", "k", "/", "9">>)
    /\ bu.item.links[5] = JNum(5)
    /\ bu.item.itemId = JNum(0) /\ bu.item.nid = JAbsent
    /\ bu.item.clickTrackInfo = JStr(<<"i", "t", "e", "m", "I", "d", "=", "9">>)
    /\ Len(bu.ret.products) = 1
    /\ bu.ret.url = <<>>

====
